---- MODULE Spec2Model ----
(***************************************************************************)
(* Order admission (create-order) and tracking dispatch (meta-server-      *)
(* events, tiktok-server-events) of the storefront, over the shared store. *)
(*                                                                         *)
(* Texts (names, phones, addresses) are sequences of one-character         *)
(* strings, so that trimming and the phone pattern are computed and not    *)
(* assumed.  Money is an integer amount of DZD.  Time is in milliseconds.  *)
(* A store call fails only where the handler branches on its error (or its *)
(* documentation names the failure); every other store call succeeds.      *)
(***************************************************************************)
EXTENDS Integers, Sequences, FiniteSets, TLC

VARIABLES
    clock,                   \* Date.now() / the database's NOW()
    products,                \* table products: id -> [name, price, is_active]
    wilayas,                 \* table wilayas: the set of codes
    shipping_rates,          \* table shipping_rates: set of rows
    settings,                \* table settings: value of key purchase_event ("" = no row)
    meta_env,                \* META_PIXEL_ID and META_ACCESS_TOKEN are set
    tiktok_env,              \* TIKTOK_ACCESS_TOKEN and TIKTOK_PIXEL_ID are set
    orders,                  \* table orders: set of rows
    order_items,             \* table order_items: set of rows
    order_status_history,    \* table order_status_history: set of rows
    rate_limits,             \* table rate_limits: set of rows
    carts,                   \* table carts: set of ids
    pending_tracking_events, \* table pending_tracking_events: set of rows
    inflight,                \* fetch() calls to the dispatchers, not yet settled
    outbound,                \* calls received by the ad platforms
    dispatch_results,        \* responses the dispatchers returned
    response,                \* response of the last create-order invocation
    gate,                    \* the return statement that produced it
    phone_input,             \* the phone string under test (phone check alone)
    lookup,                  \* response of the last get-order-public invocation
    running,                 \* create-order executions between two of their awaits
    started,                 \* number of create-order executions begun step by step
    log                      \* console.error lines of the last create-order invocation

storeVars == <<orders, order_items, order_status_history, rate_limits, carts>>
catalogVars == <<products, wilayas, shipping_rates>>
trackVars == <<pending_tracking_events, inflight, outbound, dispatch_results>>
configVars == <<settings, meta_env, tiktok_env>>
sideVars == <<phone_input, lookup, running, started, log>>
vars == <<clock, catalogVars, configVars, storeVars, trackVars, response, gate, sideVars>>

----------------------------------------------------------------------------
(* Texts *)

Digits == {"0", "1", "2", "3", "4", "5", "6", "7", "8", "9"}

IsSpace(c) == c \in {" ", "\t", "\n"}

RECURSIVE TrimStart(_)
TrimStart(s) ==
    IF s = <<>> THEN <<>>
    ELSE IF IsSpace(Head(s)) THEN TrimStart(Tail(s))
    ELSE s

RECURSIVE TrimEnd(_)
TrimEnd(s) ==
    IF s = <<>> THEN <<>>
    ELSE IF IsSpace(s[Len(s)]) THEN TrimEnd(SubSeq(s, 1, Len(s) - 1))
    ELSE s

\* String.prototype.trim
Trim(s) == TrimEnd(TrimStart(s))

(* A pattern is a sequence of items [cls, n]: n characters of the class    *)
(* cls.  MatchFrom gives the position after the match of items k.. that    *)
(* starts at position i of s, or 0 when there is none.                     *)
RECURSIVE MatchFrom(_, _, _, _)
MatchFrom(pat, k, s, i) ==
    IF k > Len(pat) THEN i
    ELSE LET last == i + pat[k].n - 1
         IN  IF last <= Len(s) /\ \A j \in i..last : s[j] \in pat[k].cls
             THEN MatchFrom(pat, k + 1, s, last + 1)
             ELSE 0

\* /^0[567]\d{8}$/
phoneRegex ==
    << [cls |-> {"0"}, n |-> 1],
       [cls |-> {"5", "6", "7"}, n |-> 1],
       [cls |-> Digits, n |-> 8] >>

\* The pattern without its closing $: a prefix match.
RegexTestUnanchored(pat, s) == MatchFrom(pat, 1, s, 1) # 0

\* RegExp.prototype.test for a pattern anchored with ^ and $ (no flags)
RegexTest(pat, s) == MatchFrom(pat, 1, s, 1) = Len(s) + 1

----------------------------------------------------------------------------
(* Time and thresholds *)

HourMs == 60 * 60 * 1000
FiveMinutesMs == 5 * 60 * 1000

IpLimit == 10
PhoneLimit == 3

MaxOrders == 3
MaxPhoneTail == 9
MaxTrackedOrders == 2
MaxDupTicks == 3
MaxRateOrders == 12
MaxRateTicks == 2
MaxLookupOrders == 2
MaxDirectResults == 3
MaxDirectSends == 2
MaxStageRequests == 3
MaxInFlight == 2
MaxRaceRequests == 5
MaxFieldRequests == 2
MaxExpiryRequests == 3
MaxShippingOrders == 2
MaxHistoryOrders == 2
MaxQuantityOrders == 2
MaxLiveRequests == 2
MaxRedeliveries == 2

----------------------------------------------------------------------------
(* Responses *)

errorResponse(message, status) ==
    [success |-> FALSE, error |-> message, status |-> status]

successResponse(order, total) ==
    [success |-> TRUE, order_id |-> order.id, public_token |-> order.public_token,
     total |-> total, status |-> 200]

NoResponse == [success |-> FALSE, error |-> "", status |-> 0]

----------------------------------------------------------------------------
(* Store queries *)

Max(S) == CHOOSE x \in S : \A y \in S : y <= x

\* uuid_generate_v4(): a token no row of the table carries
NewId(rows) == IF rows = {} THEN 1 ELSE 1 + Max({r.id : r \in rows})

RECURSIVE SumSeq(_)
SumSeq(s) == IF s = <<>> THEN 0 ELSE Head(s) + SumSeq(Tail(s))

\* PostgREST .single(): the row when exactly one row matches, else no data
Single(rows) == IF Cardinality(rows) = 1 THEN rows ELSE {}

\* the rows of a key whatever their window_start
RateLimitRowsAnyWindow(identifier, type, windowStart) ==
    {r \in rate_limits : /\ r.identifier_type = type
                         /\ r.identifier = identifier
                         /\ r.action = "create_order"}

\* rate_limits rows of a key whose window_start is not before windowStart
RateLimitRows(identifier, type, windowStart) ==
    {r \in rate_limits : /\ r.identifier_type = type
                         /\ r.identifier = identifier
                         /\ r.action = "create_order"
                         /\ r.window_start >= windowStart}

\* the IP test with > in place of >=
OverIpLimitStrict(ipRateLimit) == \E r \in ipRateLimit : r.count > IpLimit

\* ipRateLimit && ipRateLimit.count >= 10
OverIpLimit(ipRateLimit) == \E r \in ipRateLimit : r.count >= IpLimit

\* phoneRateLimit && phoneRateLimit.count >= 3
OverPhoneLimit(phoneRateLimit) == \E r \in phoneRateLimit : r.count >= PhoneLimit

\* an update that also moves the window of the counter to the request
RecordRateLimitSliding(rows, found, identifier, type, now) ==
    IF found # {}
    THEN LET c == (CHOOSE r \in found : TRUE).count + 1
         IN  {IF r.identifier_type = type /\ r.identifier = identifier
                 /\ r.action = "create_order"
              THEN [r EXCEPT !.count = c, !.window_start = now] ELSE r : r \in rows}
    ELSE rows \cup
         {[id |-> NewId(rows), identifier |-> identifier, identifier_type |-> type,
           action |-> "create_order", count |-> 1, window_start |-> now]}

\* update({count}) on every row of the key, or insert of a first row
RecordRateLimit(rows, found, identifier, type, now) ==
    IF found # {}
    THEN LET c == (CHOOSE r \in found : TRUE).count + 1
         IN  {IF r.identifier_type = type /\ r.identifier = identifier
                 /\ r.action = "create_order"
              THEN [r EXCEPT !.count = c] ELSE r : r \in rows}
    ELSE rows \cup
         {[id |-> NewId(rows), identifier |-> identifier, identifier_type |-> type,
           action |-> "create_order", count |-> 1, window_start |-> now]}

\* orders of the phone created at or after `since`
RecentOrders(phone, since) ==
    {o \in orders : o.phone = phone /\ o.created_at >= since}

ItemsOf(order_id) == {it \in order_items : it.order_id = order_id}

isDuplicate(recentItems, cart_items) ==
    /\ Cardinality(recentItems) = Len(cart_items)
    /\ \A i \in 1..Len(cart_items) :
          \E ri \in recentItems : /\ ri.product_id = cart_items[i].product_id
                                  /\ ri.quantity = cart_items[i].quantity

----------------------------------------------------------------------------
(* create-order: pricing *)

NoOptions == [size |-> "", color |-> ""]

\* body.cart_items.map(item => item.product_id)
ProductIds(cart_items) == [i \in 1..Len(cart_items) |-> cart_items[i].product_id]

\* from("products").select(...).in("id", productIds)
FetchProducts(productIds) ==
    {p \in DOMAIN products : \E i \in 1..Len(productIds) : productIds[i] = p}

\* no product is filtered out
NoInactiveProducts(found) == {}

\* products.filter(p => !p.is_active)
InactiveProducts(found) == {p \in found : ~products[p].is_active}

\* the unit price as the request states it
ClientUnitPrice(product_id, item) == item.price

\* product.price of products.find(p => p.id === item.product_id)
UnitPrice(product_id, item) == products[product_id].price

\* the orderItems of the handler, one per cart line
OrderItems(cart_items) ==
    [i \in 1..Len(cart_items) |->
        [product_id   |-> cart_items[i].product_id,
         product_name |-> products[cart_items[i].product_id].name,
         price        |-> UnitPrice(cart_items[i].product_id, cart_items[i]),
         quantity     |-> cart_items[i].quantity]]

\* subtotal += product.price * item.quantity, over the cart lines
Subtotal(orderItems) ==
    SumSeq([i \in 1..Len(orderItems) |-> orderItems[i].price * orderItems[i].quantity])

\* a free rate in place of a rate that is missing or disabled
ShippingRateOrFree(wilaya, delivery_type) ==
    LET rows == {r \in shipping_rates :
                    r.wilaya_code = wilaya /\ r.delivery_type = delivery_type /\ r.is_enabled}
    IN  IF Cardinality(rows) = 1 THEN rows
        ELSE {[wilaya_code |-> wilaya, delivery_type |-> delivery_type, price |-> 0,
               is_enabled |-> TRUE]}

\* from("shipping_rates")...eq("wilaya_code").eq("delivery_type").single()
ShippingRate(wilaya, delivery_type) ==
    Single({r \in shipping_rates :
               r.wilaya_code = wilaya /\ r.delivery_type = delivery_type})

\* the total without the shipping
TotalWithoutShipping(subtotal, shipping) == subtotal

\* const total = subtotal + shipping
Total(subtotal, shipping) == subtotal + shipping

\* optionsByProductId.get(product_id): the options of the last line of the product
OptionsByProductId(cart_items, product_id) ==
    LET last == Max({i \in 1..Len(cart_items) : cart_items[i].product_id = product_id})
    IN  cart_items[last].options

\* orderItemsWithOptions
OrderItemRows(order_id, orderItems, cart_items) ==
    {[order_id       |-> order_id,
      line           |-> i,
      product_id     |-> orderItems[i].product_id,
      product_name   |-> orderItems[i].product_name,
      price          |-> orderItems[i].price,
      quantity       |-> orderItems[i].quantity,
      selected_size  |-> OptionsByProductId(cart_items, orderItems[i].product_id).size,
      selected_color |-> OptionsByProductId(cart_items, orderItems[i].product_id).color]
     : i \in 1..Len(orderItems)}

\* await from("order_status_history").insert({order_id, status: "new"}): the
\* result of the insert is not read
InsertStatusHistory(rows, order_id, historyError) ==
    IF historyError THEN rows ELSE rows \cup {[order_id |-> order_id, status |-> "new"]}

\* the compensating delete left out
DeleteOrderSkipped(rows, order_id, deleteError) == rows

\* from("orders").delete().eq("id", order.id)
DeleteOrder(rows, order_id, deleteError) ==
    IF deleteError THEN rows ELSE {o \in rows : o.id # order_id}

\* tracking data under an event_id made up by the server
TrackingDataFreshEventId(req, order, total) ==
    [event_name  |-> "Purchase",
     event_id    |-> "generated",
     phone       |-> req.phone,
     value       |-> total,
     currency    |-> "DZD",
     order_id    |-> order.id,
     content_ids |-> [k \in 1..Len(req.cart_items) |-> req.cart_items[k].product_id],
     force_send  |-> FALSE]


\* the body of the two fetch() calls to the dispatchers
TrackingData(req, order, total) ==
    [event_name  |-> "Purchase",
     event_id    |-> req.event_id,
     phone       |-> req.phone,
     value       |-> total,
     currency    |-> "DZD",
     order_id    |-> order.id,
     content_ids |-> ProductIds(req.cart_items),
     force_send  |-> FALSE]

\* the dispatch of Meta alone
StartedDispatchesMetaOnly(req, order, total) ==
    {[platform |-> "meta", body |-> TrackingData(req, order, total)]}

\* the two fetch() calls, neither awaited, each with its own .catch
StartedDispatches(req, order, total) ==
    {[platform |-> "meta", body |-> TrackingData(req, order, total)],
     [platform |-> "tiktok", body |-> TrackingData(req, order, total)]}

----------------------------------------------------------------------------
(* create-order: the handler *)

\* console.error(message, subject)
LogEntry(message, subject) == [message |-> message, subject |-> subject]

\* the console.error calls on the way to a return statement
LoggedAt(g) ==
    IF g = "order_insert" THEN {LogEntry("Order creation error:", "orderError")}
    ELSE IF g \in {"items_insert", "items_insert_delete_failed"}
    THEN {LogEntry("Order items error:", "itemsError")}
    ELSE IF g = "turnstile_throws" THEN {LogEntry("Unexpected error:", "error")}
    ELSE {}

\* return errorResponse(...): nothing is written
Reject(g, r) ==
    /\ response' = r
    /\ gate' = g
    /\ UNCHANGED <<storeVars, trackVars>>

\* lines 176-405: pricing, persistence, rate-limit update, cart, tracking
Admit(req, env, now, ipRateLimit, phoneRateLimit) ==
    LET cart_items == req.cart_items
        found      == FetchProducts(ProductIds(cart_items))
    IN
    IF env.productsError \/ found = {}
    THEN Reject("products", errorResponse("products_load", 500))
    ELSE IF InactiveProducts(found) # {}
    THEN Reject("inactive", errorResponse("products_unavailable", 400))
    ELSE IF \E i \in 1..Len(cart_items) : cart_items[i].product_id \notin found
    THEN Reject("product_not_found", errorResponse("unexpected", 500))
    ELSE
    LET orderItems == OrderItems(cart_items)
        subtotal   == Subtotal(orderItems)
        rate       == ShippingRate(req.wilaya, req.delivery_type)
    IN
    IF env.shippingError \/ rate = {} \/ (\E r \in rate : ~r.is_enabled)
    THEN Reject("shipping", errorResponse("shipping_unavailable", 400))
    ELSE
    LET shipping == (CHOOSE r \in rate : TRUE).price
        total    == Total(subtotal, shipping)
        id       == NewId(orders)
        order    == [id            |-> id,
                     public_token  |-> <<"token", id>>,
                     full_name     |-> Trim(req.full_name),
                     phone         |-> req.phone,
                     wilaya        |-> req.wilaya,
                     address       |-> Trim(req.address),
                     delivery_type |-> req.delivery_type,
                     subtotal      |-> subtotal,
                     shipping      |-> shipping,
                     total         |-> total,
                     status        |-> "new",
                     ip_address    |-> req.ip,
                     event_id      |-> req.event_id,
                     created_at    |-> now]
    IN
    IF env.orderError
    THEN Reject("order_insert", errorResponse("order_create", 500))
    ELSE IF env.itemsError
    THEN /\ orders' = DeleteOrder(orders \cup {order}, id, env.rollbackError)
         /\ response' = errorResponse("order_create", 500)
         /\ gate' = IF env.rollbackError THEN "items_insert_delete_failed"
                    ELSE "items_insert"
         /\ UNCHANGED <<order_items, order_status_history, rate_limits, carts, trackVars>>
    ELSE /\ orders' = orders \cup {order}
         /\ order_items' = order_items \cup OrderItemRows(id, orderItems, cart_items)
         /\ order_status_history' =
               InsertStatusHistory(order_status_history, id, env.historyError)
         /\ rate_limits' =
               RecordRateLimit(
                   RecordRateLimit(rate_limits, ipRateLimit, req.ip, "ip", now),
                   phoneRateLimit, req.phone, "phone", now)
         /\ carts' = IF req.cart_id # "" THEN carts \ {req.cart_id} ELSE carts
         /\ inflight' = inflight \cup StartedDispatches(req, order, total)
         /\ response' = successResponse(order, total)
         /\ gate' = "success"
         /\ UNCHANGED <<pending_tracking_events, outbound, dispatch_results>>

\* serve(async (req) => ...) of create-order, lines 26-410
CreateOrder(req, env) ==
    LET now == clock
        windowStart    == now - HourMs
        ipRateLimit    == Single(RateLimitRows(req.ip, "ip", windowStart))
        phoneRateLimit == Single(RateLimitRows(req.phone, "phone", windowStart))
        recentOrders   == RecentOrders(req.phone, now - FiveMinutesMs)
    IN
    /\ UNCHANGED <<clock, catalogVars, configVars, phone_input, lookup, running, started>>
    /\ IF Trim(req.full_name) = <<>>
       THEN Reject("name", errorResponse("name_required", 400))
       ELSE IF ~RegexTest(phoneRegex, req.phone)
       THEN Reject("phone", errorResponse("phone_invalid", 400))
       ELSE IF req.wilaya \notin wilayas
       THEN Reject("wilaya", errorResponse("wilaya_unknown", 400))
       ELSE IF req.delivery_type \notin {"office", "home"}
       THEN Reject("delivery_type", errorResponse("delivery_type_invalid", 400))
       ELSE IF req.delivery_type = "home" /\ Trim(req.address) = <<>>
       THEN Reject("address", errorResponse("address_required", 400))
       ELSE IF Len(req.cart_items) = 0
       THEN Reject("cart", errorResponse("cart_empty", 400))
       ELSE IF env.turnstile = "throws"
       THEN Reject("turnstile_throws", errorResponse("unexpected", 500))
       ELSE IF env.turnstile # "success"
       THEN Reject("turnstile", errorResponse("verification_failed", 400))
       ELSE IF OverIpLimit(ipRateLimit)
       THEN Reject("rate_ip", errorResponse("rate_limit", 429))
       ELSE IF OverPhoneLimit(phoneRateLimit)
       THEN Reject("rate_phone", errorResponse("rate_limit_phone", 429))
       ELSE IF recentOrders = {}
       THEN Admit(req, env, now, ipRateLimit, phoneRateLimit)
       ELSE \E first \in recentOrders :
               IF isDuplicate(ItemsOf(first.id), req.cart_items)
               THEN Reject("duplicate", errorResponse("duplicate_order", 400))
               ELSE Admit(req, env, now, ipRateLimit, phoneRateLimit)
    /\ log' = LoggedAt(gate')

----------------------------------------------------------------------------
(* The dispatchers *)

\* the text itself in place of its digest
PlainText(text) == text

\* crypto.subtle.digest("SHA-256", ...) in hex: one digest per text
SHA256(text) == <<"sha256", text>>

\* "213" + phone.substring(1)
MetaNormalizedPhone(phone) == <<"2", "1", "3">> \o Tail(phone)

\* the international form written with its plus sign
normalizeDzPhoneWithPlus(phone) ==
    LET p == Trim(phone)
    IN  IF RegexTest(phoneRegex, p) THEN <<"+", "2", "1", "3">> \o Tail(p) ELSE <<>>

\* normalizeDzPhone of tiktok-server-events; <<>> stands for null
normalizeDzPhone(phone) ==
    LET p == Trim(phone)
    IN  IF RegexTest(phoneRegex, p) THEN <<"2", "1", "3">> \o Tail(p) ELSE <<>>

\* settings?.value || "confirmed"
PurchaseEventTrigger == IF settings = "" THEN "confirmed" ELSE settings

\* the credentials check taken as passed
CredentialsAssumed == TRUE

\* every Purchase, with or without an order
AnyPurchase(body) == body.event_name = "Purchase"

\* body.event_name === "Purchase" && body.order_id; 0 stands for no order_id
TiedToOrder(body) == body.event_name = "Purchase" /\ body.order_id # 0

\* metaPixelId && metaAccessToken
MetaConfigured == meta_env

\* tiktokAccessToken && tiktokPixelId
TikTokConfigured == tiktok_env

\* the answer of a dispatcher, as the caller of the function would read it
DispatchResult(platform, body, status, success, message) ==
    [platform |-> platform, order_id |-> body.order_id, event_id |-> body.event_id,
     status |-> status, success |-> success, message |-> message]

\* eventPayload of meta-server-events
MetaPayload(body) ==
    [event_name    |-> body.event_name,
     event_id      |-> body.event_id,
     action_source |-> "website",
     ph            |-> IF body.phone # <<>>
                       THEN SHA256(MetaNormalizedPhone(body.phone)) ELSE <<>>,
     value         |-> body.value,
     currency      |-> body.currency,
     content_ids   |-> body.content_ids]

\* payload of tiktok-server-events
TikTokPayload(body) ==
    [event       |-> body.event_name,
     event_id    |-> body.event_id,
     phone       |-> IF body.phone # <<>> /\ normalizeDzPhone(body.phone) # <<>>
                     THEN SHA256(normalizeDzPhone(body.phone)) ELSE <<>>,
     value       |-> body.value,
     currency    |-> body.currency,
     content_ids |-> body.content_ids,
     order_id    |-> body.order_id]

\* the row meta-server-events queues
PendingRow(body) ==
    [id |-> NewId(pending_tracking_events), order_id |-> body.order_id,
     event_name |-> body.event_name, event_id |-> body.event_id,
     trigger_status |-> "delivered"]

\* one call to the conversion endpoint of a platform, numbered as it is made
OutboundCall(platform, body, payload, made) ==
    [platform |-> platform, order_id |-> body.order_id, payload |-> payload,
     seq |-> Cardinality(made) + 1]

\* the fetch() to the platform made again when it failed
SendToPlatformWithRetry(platform, body, payload, platformAnswer) ==
    LET first == OutboundCall(platform, body, payload, outbound)
    IN  /\ outbound' =
              IF platformAnswer = "ok" THEN outbound \cup {first}
              ELSE outbound \cup {first, OutboundCall(platform, body, payload,
                                                      outbound \cup {first})}
        /\ dispatch_results' = dispatch_results \cup
              {IF platformAnswer = "ok"
               THEN DispatchResult(platform, body, 200, TRUE, "sent")
               ELSE DispatchResult(platform, body, 500, FALSE, "platform_error")}
        /\ UNCHANGED pending_tracking_events

\* the fetch() to the platform and the answer built from it: the platform
\* answers ok or not ok, or the fetch throws
SendToPlatform(platform, body, payload, platformAnswer) ==
    /\ outbound' = outbound \cup {OutboundCall(platform, body, payload, outbound)}
    /\ dispatch_results' = dispatch_results \cup
          {IF platformAnswer = "ok"
           THEN DispatchResult(platform, body, 200, TRUE, "sent")
           ELSE IF platformAnswer = "not_ok"
           THEN DispatchResult(platform, body, 500, FALSE, "platform_error")
           ELSE DispatchResult(platform, body, 500, FALSE, "tracking_failed")}
    /\ UNCHANGED pending_tracking_events

(* serve(async (req) => ...) of meta-server-events, for a call create-order  *)
(* started.  The insert of the pending row is written as                    *)
(* insert(...).catch(...): it succeeds ("ok"), or it fails and the failure  *)
(* is dropped ("error"), or the query builder of the client library in use  *)
(* has then() but no catch(), so that the statement throws before the       *)
(* insert is sent and the handler's catch answers 500 ("no_catch").         *)
MetaServerEvents(task, env) ==
    LET body == task.body
    IN
    /\ task \in inflight
    /\ task.platform = "meta"
    /\ inflight' = inflight \ {task}
    /\ UNCHANGED <<clock, catalogVars, configVars, storeVars, response, gate, sideVars>>
    /\ IF ~MetaConfigured
       THEN /\ dispatch_results' = dispatch_results \cup
                  {DispatchResult("meta", body, 200, TRUE, "skipped_not_configured")}
            /\ UNCHANGED <<pending_tracking_events, outbound>>
       ELSE IF TiedToOrder(body) /\ PurchaseEventTrigger = "delivered"
       THEN /\ pending_tracking_events' =
                  IF env.pendingInsert = "ok"
                  THEN pending_tracking_events \cup {PendingRow(body)}
                  ELSE pending_tracking_events
            /\ dispatch_results' = dispatch_results \cup
                  {IF env.pendingInsert = "no_catch"
                   THEN DispatchResult("meta", body, 500, FALSE, "tracking_failed")
                   ELSE DispatchResult("meta", body, 200, TRUE, "queued_for_delivered")}
            /\ UNCHANGED outbound
       ELSE SendToPlatform("meta", body, MetaPayload(body), env.platformAnswer)

\* serve(async (req) => ...) of tiktok-server-events, for a call create-order started
TikTokServerEvents(task, env) ==
    LET body == task.body
    IN
    /\ task \in inflight
    /\ task.platform = "tiktok"
    /\ inflight' = inflight \ {task}
    /\ UNCHANGED <<clock, catalogVars, configVars, storeVars, response, gate, sideVars>>
    /\ IF ~TikTokConfigured
       THEN /\ dispatch_results' = dispatch_results \cup
                  {DispatchResult("tiktok", body, 200, TRUE, "skipped_not_configured")}
            /\ UNCHANGED <<pending_tracking_events, outbound>>
       ELSE IF TiedToOrder(body) /\ ~body.force_send
               /\ PurchaseEventTrigger = "delivered"
       THEN /\ dispatch_results' = dispatch_results \cup
                  {DispatchResult("tiktok", body, 200, TRUE, "skipped_delivered")}
            /\ UNCHANGED <<pending_tracking_events, outbound>>
       ELSE SendToPlatform("tiktok", body, TikTokPayload(body), env.platformAnswer)

\* a failed dispatch turned into the failure of the order request
CatchAndFail(resp) == errorResponse("unexpected", 500)

\* .catch(console.error) on the two fetch() calls: the rejection is logged
CatchConsoleError(resp) == resp

\* the fetch() to a dispatcher rejects (the function is never reached)
DispatchFetchRejects(task) ==
    /\ task \in inflight
    /\ inflight' = inflight \ {task}
    /\ response' = CatchConsoleError(response)
    /\ log' = log \cup {LogEntry("", "fetchError")}
    /\ UNCHANGED <<clock, catalogVars, configVars, storeVars, gate,
                   phone_input, lookup, running, started,
                   pending_tracking_events, outbound, dispatch_results>>

----------------------------------------------------------------------------
(* The environment *)

\* time passes
Tick(d, until) ==
    /\ clock + d <= until
    /\ clock' = clock + d
    /\ UNCHANGED <<catalogVars, configVars, storeVars, trackVars, response, gate,
                   sideVars>>

\* a price edit that rewrites the items of the orders placed
SetPriceRewritingItems(p, v) ==
    /\ p \in DOMAIN products
    /\ products[p].price # v
    /\ products' = [products EXCEPT ![p].price = v]
    /\ order_items' = {IF it.product_id = p THEN [it EXCEPT !.price = v] ELSE it
                       : it \in order_items}
    /\ UNCHANGED <<clock, wilayas, shipping_rates, configVars, orders,
                   order_status_history, rate_limits, carts, trackVars,
                   response, gate, sideVars>>

\* the admin edits a product's price
SetPrice(p, v) ==
    /\ p \in DOMAIN products
    /\ products[p].price # v
    /\ products' = [products EXCEPT ![p].price = v]
    /\ UNCHANGED <<clock, wilayas, shipping_rates, configVars, storeVars, trackVars,
                   response, gate, sideVars>>

\* the admin renames a product
SetName(p, n) ==
    /\ p \in DOMAIN products
    /\ products[p].name # n
    /\ products' = [products EXCEPT ![p].name = n]
    /\ UNCHANGED <<clock, wilayas, shipping_rates, configVars, storeVars, trackVars,
                   response, gate, sideVars>>

\* the admin takes a product off the catalog, or puts it back
SetActive(p, flag) ==
    /\ p \in DOMAIN products
    /\ products[p].is_active # flag
    /\ products' = [products EXCEPT ![p].is_active = flag]
    /\ UNCHANGED <<clock, wilayas, shipping_rates, configVars, storeVars, trackVars,
                   response, gate, sideVars>>

\* the admin enables or disables a shipping rate
SetShippingEnabled(w, d, flag) ==
    /\ \E r \in shipping_rates :
          r.wilaya_code = w /\ r.delivery_type = d /\ r.is_enabled # flag
    /\ shipping_rates' =
          {IF r.wilaya_code = w /\ r.delivery_type = d THEN [r EXCEPT !.is_enabled = flag]
           ELSE r : r \in shipping_rates}
    /\ UNCHANGED <<clock, products, wilayas, configVars, storeVars, trackVars,
                   response, gate, sideVars>>

\* the admin edits the price of a shipping rate
SetShippingPrice(w, d, v) ==
    /\ \E r \in shipping_rates : r.wilaya_code = w /\ r.delivery_type = d /\ r.price # v
    /\ shipping_rates' =
          {IF r.wilaya_code = w /\ r.delivery_type = d THEN [r EXCEPT !.price = v] ELSE r
           : r \in shipping_rates}
    /\ UNCHANGED <<clock, products, wilayas, configVars, storeVars, trackVars,
                   response, gate, sideVars>>

----------------------------------------------------------------------------
(* Inputs *)

PhoneA == <<"0", "5", "5", "1", "2", "3", "4", "5", "6", "7">>
PhoneB == <<"0", "6", "6", "1", "2", "3", "4", "5", "6", "7">>
PhoneBad == <<"0", "4", "4", "1", "2", "3", "4", "5", "6", "7">>

NameAli == <<" ", "A", "l", "i">>
Blank == <<" ">>
Street == <<"R", "u", "e", " ">>

Line(p, q, size) ==
    [product_id |-> p, quantity |-> q, price |-> 1,
     options |-> [size |-> size, color |-> ""]]

CartA1 == <<Line("A", 1, "")>>
CartA2 == <<Line("A", 2, "")>>
CartAB == <<Line("A", 1, ""), Line("B", 2, "")>>
CartA1A2 == <<Line("A", 1, "M"), Line("A", 2, "L")>>
CartA2A2 == <<Line("A", 2, "M"), Line("A", 2, "L")>>
CartZ == <<Line("Z", 1, "")>>
CartAZ == <<Line("A", 1, ""), Line("Z", 1, "")>>
CartAC == <<Line("A", 1, ""), Line("C", 1, "")>>

BaseReq ==
    [full_name |-> NameAli, phone |-> PhoneA, wilaya |-> "16",
     delivery_type |-> "office", address |-> <<>>, cart_items |-> CartA1,
     event_id |-> "evt_1", cart_id |-> "",
     ip |-> <<"1", "0", ".", "0", ".", "0", ".", "7">>]

BaseEnv ==
    [turnstile |-> "success", productsError |-> FALSE, shippingError |-> FALSE,
     orderError |-> FALSE, itemsError |-> FALSE, rollbackError |-> FALSE,
     historyError |-> FALSE]

\* the base request with one field changed, valid or not
Reqs ==
    {[BaseReq EXCEPT !.full_name = n] : n \in {Blank, <<>>}}
    \cup {[BaseReq EXCEPT !.phone = ph] : ph \in {PhoneB, PhoneBad}}
    \cup {[BaseReq EXCEPT !.wilaya = w] : w \in {"31", "99"}}
    \cup {[BaseReq EXCEPT !.delivery_type = d, !.address = a] :
             d \in {"home", "pickup"}, a \in {Blank, Street}}
    \cup {[BaseReq EXCEPT !.cart_items = c] : c \in {<<>>, CartZ, CartAZ, CartAC}}
    \cup {[BaseReq EXCEPT !.cart_items = c, !.cart_id = "k1"] : c \in {CartA1, CartA2}}

\* every call succeeds, or one of them fails
Envs ==
    {BaseEnv}
    \cup {[BaseEnv EXCEPT !.turnstile = t] : t \in {"failure", "throws"}}
    \cup {[BaseEnv EXCEPT !.productsError = TRUE],
          [BaseEnv EXCEPT !.shippingError = TRUE],
          [BaseEnv EXCEPT !.orderError = TRUE],
          [BaseEnv EXCEPT !.itemsError = TRUE],
          [BaseEnv EXCEPT !.itemsError = TRUE, !.rollbackError = TRUE]}

\* the calls of the admission gates: each request with every call succeeding,
\* and sound requests with one call failing
Calls ==
    ((Reqs \cup {BaseReq}) \X {BaseEnv})
    \cup ({BaseReq, [BaseReq EXCEPT !.cart_items = CartA2, !.cart_id = "k1"]} \X Envs)

InitProducts ==
    [p \in {"A", "B", "C"} |->
        IF p = "A" THEN [name |-> "ring", price |-> 2500, is_active |-> TRUE]
        ELSE IF p = "B" THEN [name |-> "chain", price |-> 1200, is_active |-> TRUE]
        ELSE [name |-> "watch", price |-> 900, is_active |-> FALSE]]

InitShippingRates ==
    {[wilaya_code |-> "16", delivery_type |-> "office", price |-> 400, is_enabled |-> TRUE],
     [wilaya_code |-> "16", delivery_type |-> "home", price |-> 600, is_enabled |-> TRUE],
     [wilaya_code |-> "31", delivery_type |-> "office", price |-> 500, is_enabled |-> FALSE]}

----------------------------------------------------------------------------
(* Admission of requests handled one after another *)

Init ==
    /\ clock = 0
    /\ products = InitProducts
    /\ wilayas = {"16", "31"}
    /\ shipping_rates = InitShippingRates
    /\ settings = ""
    /\ meta_env = TRUE
    /\ tiktok_env = TRUE
    /\ orders = {}
    /\ order_items = {}
    /\ order_status_history = {}
    /\ rate_limits = {}
    /\ carts = {"k1"}
    /\ pending_tracking_events = {}
    /\ inflight = {}
    /\ outbound = {}
    /\ dispatch_results = {}
    /\ response = NoResponse
    /\ gate = "none"
    /\ phone_input = <<>>
    /\ lookup = NoResponse
    /\ running = {}
    /\ started = 0
    /\ log = {}

Next ==
    \/ \E call \in Calls :
          CreateOrder(call[1], call[2]) /\ Cardinality(orders') <= MaxOrders
    \/ Tick(FiveMinutesMs + 1, FiveMinutesMs + 1)

Spec == Init /\ [][Next]_vars

(* C2, as stated: a create-order request that is rejected, whatever the     *)
(* failure class, leaves the store with no new Order row, no new OrderItem  *)
(* row, no rate-limit counter created or incremented and no Cart deleted.   *)
C2_RejectedWritesNothing ==
    [][~response'.success => UNCHANGED storeVars]_vars

(* C2, amended: a rejected request leaves orders, items, status history,    *)
(* rate-limit counters and carts as they were, except that when the         *)
(* OrderItem insert fails and the compensating delete of the Order row      *)
(* fails too, the one Order row of that request remains, without items.     *)
C2_RejectedWritesNothingButFailedRollback ==
    [][~response'.success =>
          \/ UNCHANGED storeVars
          \/ /\ gate' = "items_insert_delete_failed"
             /\ \E o \in orders' : /\ o \notin orders
                                   /\ orders' = orders \cup {o}
                                   /\ ItemsOf(o.id) = {}
             /\ UNCHANGED <<order_items, order_status_history, rate_limits, carts>>]_vars

\* a request was rejected after its Order row was inserted and deleted again,
\* while the store holds the rows of an earlier order
C2_Witness ==
    /\ gate = "items_insert"
    /\ ~response.success
    /\ orders # {}
    /\ rate_limits # {}

(* C8: when the bot verification answers success false, or the verification *)
(* call fails with a network or parse error, the request is rejected with a *)
(* 400-class status and nothing is written to the rate-limit, order, item   *)
(* or cart tables.                                                          *)
C8_VerificationFailureRejects400 ==
    [][gate' \in {"turnstile", "turnstile_throws"} =>
          /\ response'.status \in 400..499
          /\ UNCHANGED storeVars]_vars

(* C15: when the insert of the order items fails after the order row was    *)
(* inserted, the handler issues the delete of that row and answers 500; no  *)
(* status-history row is written, no rate-limit counter is updated, no cart *)
(* is deleted and no dispatch is started; when the delete succeeds, the     *)
(* orders are those of before: no row of this request remains.              *)
C15_ItemsFailureCompensated ==
    [][\A call \in {c \in Calls : c[2].itemsError} :
          /\ gate' \in {"items_insert", "items_insert_delete_failed"}
          /\ CreateOrder(call[1], call[2])
          => /\ response' = errorResponse("order_create", 500)
             /\ UNCHANGED <<order_items, order_status_history, rate_limits, carts, trackVars>>
             /\ gate' = "items_insert" => orders' = orders]_vars

\* the items of a request with a stored cart failed to insert, after an earlier
\* order was accepted: the cart is still there and every order has its items
C15_Witness ==
    /\ gate = "items_insert"
    /\ response.status = 500
    /\ Cardinality(orders) = 1
    /\ \A o \in orders : ItemsOf(o.id) # {}
    /\ "k1" \in carts
    /\ inflight # {}

(* C26: when the insert of the order items fails and the compensating       *)
(* delete of the order row fails too, create-order writes the failed delete *)
(* to its log before it responds, and repairs nothing by itself.            *)
C26_FailedDeleteLogged ==
    [][\A call \in {c \in Calls : c[2].itemsError /\ c[2].rollbackError} :
          /\ gate' = "items_insert_delete_failed"
          /\ CreateOrder(call[1], call[2])
          => /\ \E l \in log' : l.subject = "deleteError"
             /\ \E o \in orders' \ orders : ItemsOf(o.id)' = {}]_vars

(* C26, what the handler does: it logs the failure of the items insert, and *)
(* leaves the order row without items in the store.                         *)
C26_ItemsErrorLoggedOnly ==
    [][\A call \in {c \in Calls : c[2].itemsError /\ c[2].rollbackError} :
          /\ gate' = "items_insert_delete_failed"
          /\ CreateOrder(call[1], call[2])
          => /\ log' = {LogEntry("Order items error:", "itemsError")}
             /\ \E o \in orders' \ orders : ItemsOf(o.id)' = {}]_vars

\* the gates of each failure class
ValidationGates == {"name", "phone", "wilaya", "delivery_type", "address", "cart"}

VerificationGates == {"turnstile", "turnstile_throws"}

RateLimitGates == {"rate_ip", "rate_phone"}

ProductLookupGates == {"products", "product_not_found"}

PersistenceGates == {"order_insert", "items_insert", "items_insert_delete_failed"}

(* C16: a rejected request is answered with the status of its failure       *)
(* class: validation, bot verification and duplicate with 400; rate limit   *)
(* with 429; product lookup, shipping lookup and persistence failures with  *)
(* 500.                                                                     *)
C16_StatusOfFailureClass ==
    [][~response'.success =>
          /\ gate' \in ValidationGates \cup VerificationGates \cup {"duplicate"} =>
                response'.status = 400
          /\ gate' \in RateLimitGates => response'.status = 429
          /\ gate' \in ProductLookupGates \cup {"shipping"} \cup PersistenceGates =>
                response'.status = 500]_vars

\* the classes whose status the handler gives as stated
C16_StatusOfFailureClassButShippingAndThrow ==
    [][~response'.success =>
          /\ gate' \in ValidationGates \cup {"turnstile", "duplicate"} =>
                response'.status = 400
          /\ gate' \in RateLimitGates => response'.status = 429
          /\ gate' \in ProductLookupGates \cup PersistenceGates =>
                response'.status = 500
          /\ gate' = "shipping" => response'.status = 400
          /\ gate' = "turnstile_throws" => response'.status = 500]_vars

----------------------------------------------------------------------------
(* Pricing: requests that state prices of their own, while the admin edits  *)
(* the catalog and the shipping rates                                       *)

LineAt(p, q, price) ==
    [product_id |-> p, quantity |-> q, price |-> price,
     options |-> [size |-> "", color |-> ""]]

PriceCarts ==
    {CartA1, <<LineAt("A", 1, 9999)>>, <<LineAt("A", 3, 0)>>, CartAB,
     CartZ, CartAZ, CartAC}

PriceCalls == {[BaseReq EXCEPT !.cart_items = c] : c \in PriceCarts} \X {BaseEnv}

PriceNext ==
    \/ \E call \in PriceCalls : CreateOrder(call[1], call[2])
    \/ \E v \in {2500, 3000} : SetPrice("A", v)
    \/ \E v \in {400, 450} : SetShippingPrice("16", "office", v)

PriceSpec == Init /\ [][PriceNext]_vars

\* the sum, over the cart lines, of the store's price times the line's quantity
StoreSubtotal(cart_items) ==
    SumSeq([i \in 1..Len(cart_items) |->
               products[cart_items[i].product_id].price * cart_items[i].quantity])

\* the price of the store's rate of a destination
StoreShipping(wilaya, delivery_type) ==
    (CHOOSE r \in shipping_rates :
        r.wilaya_code = wilaya /\ r.delivery_type = delivery_type).price

(* C1: when a request is admitted, the total persisted on its Order and the *)
(* total of the response are the sum over the cart lines of the store's     *)
(* price times the submitted quantity, plus the store's shipping rate of    *)
(* the destination, whatever price the request states.                      *)
C1_TotalFromStorePrices ==
    [][\A call \in PriceCalls :
          (CreateOrder(call[1], call[2]) /\ response'.success) =>
             \E o \in orders' \ orders :
                /\ o.id = response'.order_id
                /\ o.total = StoreSubtotal(call[1].cart_items)
                                + StoreShipping(call[1].wilaya, call[1].delivery_type)
                /\ response'.total = o.total]_vars

\* an order of 3 rings at the edited price 3000 and the edited rate 450, from
\* a request stating the price 0
C1_Witness ==
    /\ response.success
    /\ \E o \in orders :
          /\ o.id = response.order_id
          /\ o.total = 9450
          /\ \E it \in ItemsOf(o.id) : it.quantity = 3

(* C5: a request that names a product the store does not hold, or holds as  *)
(* inactive, fails and writes no Order and no OrderItem row, also when its  *)
(* other products are sound.                                                *)
C5_MissingOrInactiveProductFails ==
    [][\A call \in PriceCalls :
          (/\ CreateOrder(call[1], call[2])
           /\ \E i \in 1..Len(call[1].cart_items) :
                 LET p == call[1].cart_items[i].product_id
                 IN  p \notin DOMAIN products \/ ~products[p].is_active) =>
             /\ ~response'.success
             /\ UNCHANGED <<orders, order_items>>]_vars

\* a cart of a sound and an inactive product was refused while the store holds an order
C5_Witness ==
    /\ gate = "inactive"
    /\ response.status = 400
    /\ orders # {}

(* C9: every persisted Order has total = subtotal + shipping, the subtotal  *)
(* being the sum of its items' price times quantity; at admission the item  *)
(* prices are the store's prices and the shipping is the store's rate.      *)
C9_TotalIsSubtotalPlusShipping ==
    /\ [](\A o \in orders :
             /\ o.total = o.subtotal + o.shipping
             /\ o.subtotal = SumSeq([i \in 1..Cardinality(ItemsOf(o.id)) |->
                   LET it == CHOOSE x \in ItemsOf(o.id) : x.line = i
                   IN  it.price * it.quantity]))
    /\ [][\A o \in orders' \ orders :
             /\ \A it \in order_items' : it.order_id = o.id =>
                   it.price = products[it.product_id].price
             /\ o.shipping = StoreShipping(o.wilaya, o.delivery_type)]_vars

\* an order with two lines and a shipping price that is not zero
C9_Witness ==
    \E o \in orders :
       /\ Cardinality(ItemsOf(o.id)) = 2
       /\ o.shipping > 0
       /\ o.subtotal > 0

(* The catalog edited between orders: price, name and active flag of a      *)
(* product that orders already hold                                         *)

CatalogCalls == {[BaseReq EXCEPT !.cart_items = c] : c \in {CartA1, CartAB}} \X {BaseEnv}

CatalogNext ==
    \/ \E call \in CatalogCalls : CreateOrder(call[1], call[2])
    \/ \E v \in {2500, 3000} : SetPrice("A", v)
    \/ \E n \in {"ring", "gold ring"} : SetName("A", n)
    \/ \E flag \in BOOLEAN : SetActive("A", flag)

CatalogSpec == Init /\ [][CatalogNext]_vars

(* C30: the OrderItem rows of an admitted order hold the name and the unit  *)
(* price the catalog held at admission; an edit of a product's price, name  *)
(* or active flag leaves every OrderItem row and every Order (its subtotal  *)
(* and total) as they were.                                                 *)
C30_ItemsKeepAdmissionNameAndPrice ==
    /\ [][\A o \in orders' \ orders :
             \A it \in order_items' : it.order_id = o.id =>
                /\ it.product_name = products[it.product_id].name
                /\ it.price = products[it.product_id].price]_vars
    /\ [][products' # products =>
             /\ order_items' = order_items
             /\ orders' = orders]_vars

\* an order of rings at 2500 stands with its items while the catalog holds
\* the product renamed, at another price and inactive
C30_Witness ==
    /\ products["A"] = [name |-> "gold ring", price |-> 3000, is_active |-> FALSE]
    /\ \E o \in orders :
          /\ o.subtotal = 2500
          /\ \E it \in ItemsOf(o.id) :
                it.product_id = "A" /\ it.product_name = "ring" /\ it.price = 2500

----------------------------------------------------------------------------
(* The phone check alone: sound requests but for the phone, drawn from      *)
(* strings around the pattern                                               *)

TailDigits == <<"1", "2", "3", "4", "5", "6", "7", "8", "9", "0", "1", "2">>

\* what follows the first two characters: 7..MaxPhoneTail digits, or 8
\* characters one of which is not a digit
PhoneTails ==
    {SubSeq(TailDigits, 1, n) : n \in 7..MaxPhoneTail}
    \cup {[i \in 1..8 |-> IF i = k THEN c ELSE TailDigits[i]] :
             k \in 1..8, c \in {"a", " ", "+"}}

PhoneSamples ==
    {<<a, b>> \o t : a \in {"0", "1", "+"}, b \in {"4", "5", "6", "7", "8"},
                     t \in PhoneTails}
    \cup {<<>>, <<" ">> \o PhoneA, PhoneA \o <<" ">>, PhoneA \o <<"\n">>,
          PhoneA \o PhoneA, <<"2", "1", "3">> \o Tail(PhoneA)}

PhoneInit ==
    /\ Init!1 /\ Init!2 /\ Init!3 /\ Init!4 /\ Init!5 /\ Init!6 /\ Init!7
    /\ Init!8 /\ Init!9 /\ Init!10 /\ Init!11 /\ Init!12 /\ Init!13 /\ Init!14
    /\ Init!15 /\ Init!16 /\ Init!17 /\ Init!18
    /\ phone_input \in PhoneSamples
    /\ Init!20 /\ Init!21 /\ Init!22 /\ Init!23

PhoneNext ==
    \E c \in {CartA1, CartA2} :
       CreateOrder([BaseReq EXCEPT !.phone = phone_input, !.cart_items = c], BaseEnv)

PhoneSpec == PhoneInit /\ [][PhoneNext]_vars

\* exactly 10 characters: "0", one of 5, 6, 7, then 8 decimal digits
ValidPhoneShape(s) ==
    /\ Len(s) = 10
    /\ s[1] = "0"
    /\ s[2] \in {"5", "6", "7"}
    /\ \A i \in 3..10 : s[i] \in Digits

(* C10: the phone check accepts a phone iff it is exactly 10 characters,    *)
(* "0", then one of 5, 6, 7, then 8 decimal digits; a request with any      *)
(* other phone is rejected with 400 by the phone check.                     *)
C10_PhoneAcceptedIffShape ==
    gate # "none" =>
       /\ (gate = "phone") <=> ~ValidPhoneShape(phone_input)
       /\ gate = "phone" => response.status = 400 /\ orders = {}

\* an 11-character phone is refused though its first 10 characters match
C10_Witness ==
    /\ gate = "phone"
    /\ Len(phone_input) = 11
    /\ ValidPhoneShape(SubSeq(phone_input, 1, 10))

----------------------------------------------------------------------------
(* Tracking: the Purchase dispatches that admitted orders start, under each *)
(* configuration of the platforms and of the purchase_event setting         *)

TrackInit ==
    /\ Init!1 /\ Init!2 /\ Init!3 /\ Init!4
    /\ settings \in {"", "confirmed", "delivered"}
    /\ meta_env \in BOOLEAN
    /\ tiktok_env \in BOOLEAN
    /\ Init!8 /\ Init!9 /\ Init!10 /\ Init!11 /\ Init!12 /\ Init!13 /\ Init!14
    /\ Init!15 /\ Init!16 /\ Init!17 /\ Init!18 /\ Init!19
    /\ Init!20 /\ Init!21 /\ Init!22 /\ Init!23

TrackCalls ==
    {BaseReq, [BaseReq EXCEPT !.cart_items = CartA2, !.event_id = "evt_2"]} \X {BaseEnv}

\* what the calls a dispatcher makes can answer
DispatchEnvs ==
    {[pendingInsert |-> "ok", platformAnswer |-> a] : a \in {"ok", "not_ok", "throws"}}
    \cup {[pendingInsert |-> i, platformAnswer |-> "ok"] : i \in {"error", "no_catch"}}

TrackNext ==
    \/ \E call \in TrackCalls :
          CreateOrder(call[1], call[2]) /\ Cardinality(orders') <= MaxTrackedOrders
    \/ \E task \in inflight, env \in DispatchEnvs : MetaServerEvents(task, env)
    \/ \E task \in inflight, env \in DispatchEnvs : TikTokServerEvents(task, env)
    \/ \E task \in inflight : DispatchFetchRejects(task)

TrackSpec == TrackInit /\ [][TrackNext]_vars

\* both dispatchers have answered for the order
Dispatched(o) ==
    \A p \in {"meta", "tiktok"} :
       \E r \in dispatch_results : r.platform = p /\ r.order_id = o.id

Configured(p) == IF p = "meta" THEN meta_env ELSE tiktok_env

(* C6: once the Purchase of an order has been dispatched (both dispatchers  *)
(* have answered, a platform being configured): under the setting           *)
(* 'delivered' a pending row with trigger_status 'delivered' exists for the *)
(* order and no call went out to a platform; under 'confirmed' or no        *)
(* setting a call went out to each configured platform and no pending row   *)
(* exists for the order.                                                    *)
C6_DeliveredQueuesElseSends ==
    \A o \in orders :
       (Dispatched(o) /\ (meta_env \/ tiktok_env)) =>
          IF PurchaseEventTrigger = "delivered"
          THEN /\ \E row \in pending_tracking_events :
                     row.order_id = o.id /\ row.trigger_status = "delivered"
               /\ \A call \in outbound : call.order_id # o.id
          ELSE /\ \A p \in {"meta", "tiktok"} :
                     Configured(p) =>
                        \E call \in outbound : call.platform = p /\ call.order_id = o.id
               /\ \A row \in pending_tracking_events : row.order_id # o.id

(* C6, the half the code keeps: under 'confirmed' or no setting, a          *)
(* dispatched order has a call to each configured platform and no pending   *)
(* row; under 'delivered' no call goes out for it.                          *)
C6_SendsUnlessDelivered ==
    \A o \in orders :
       Dispatched(o) =>
          IF PurchaseEventTrigger = "delivered"
          THEN \A call \in outbound : call.order_id # o.id
          ELSE /\ \A p \in {"meta", "tiktok"} :
                     Configured(p) =>
                        \E call \in outbound : call.platform = p /\ call.order_id = o.id
               /\ \A row \in pending_tracking_events : row.order_id # o.id

(* C7: the response of an admitted order (200, order_id, public_token,      *)
(* total) is produced while its dispatches are in flight, and no outcome of *)
(* a dispatch (answered, failed, rejected) changes it or makes it an error. *)
C7_ResponseIndependentOfDispatch ==
    /\ [][(inflight' \subseteq inflight /\ inflight' # inflight) =>
             response' = response]_vars
    /\ [][gate' = "success" /\ orders' # orders =>
             /\ response'.status = 200
             /\ \E o \in orders' \ orders :
                   /\ response' = successResponse(o, o.total)
                   /\ \E t \in inflight' : t.body.order_id = o.id]_vars

\* the 200 response of an order stands while one of its dispatches has
\* failed and the other is still in flight
C7_Witness ==
    /\ response.success
    /\ response.status = 200
    /\ \E t \in inflight : t.body.order_id = response.order_id
    /\ \E r \in dispatch_results : r.order_id = response.order_id /\ ~r.success

\* every record kept or sent for an order carries the event_id of its row
EventIdsAgree ==
    \A o \in orders :
       /\ \A t \in inflight : t.body.order_id = o.id => t.body.event_id = o.event_id
       /\ \A c \in outbound : c.order_id = o.id => c.payload.event_id = o.event_id
       /\ \A e \in pending_tracking_events : e.order_id = o.id => e.event_id = o.event_id

(* C13: the event_id of the create-order request is the one stored on the   *)
(* order row, and the one of every payload sent and of every pending row    *)
(* kept for the Purchase of that order.                                     *)
C13_EventIdOfRequestEverywhere ==
    [][/\ \A call \in TrackCalls :
             CreateOrder(call[1], call[2]) /\ response'.success =>
                \E o \in orders' \ orders :
                   /\ o.id = response'.order_id
                   /\ o.event_id = call[1].event_id
       /\ EventIdsAgree']_vars

\* two orders with two event ids, each of them sent to a platform or queued
C13_Witness ==
    /\ \E o1, o2 \in orders : o1.event_id = "evt_1" /\ o2.event_id = "evt_2"
    /\ \A o \in orders :
          \/ \E c \in outbound : c.order_id = o.id
          \/ \E e \in pending_tracking_events : e.order_id = o.id

\* what is recorded of one platform: the answers of its dispatcher and its calls
OfPlatform(records, p) == {r \in records : r.platform = p}

(* C28: for every order that was created a dispatch is started for Meta and *)
(* one for TikTok; what happens to the dispatch of one platform (an answer, *)
(* a failure, a rejected fetch, or no answer at all) leaves the dispatch of *)
(* the other platform in flight and leaves its answers and calls as they    *)
(* are.                                                                     *)
C28_PlatformsDispatchedIndependently ==
    /\ [][gate' = "success" /\ orders' # orders =>
             \A o \in orders' \ orders : \A p \in {"meta", "tiktok"} :
                \E t \in inflight' \ inflight :
                   t.platform = p /\ t.body.order_id = o.id]_vars
    /\ [][\A t \in inflight \ inflight' :
             /\ inflight' = inflight \ {t}
             /\ \A q \in {"meta", "tiktok"} \ {t.platform} :
                   /\ OfPlatform(dispatch_results', q) = OfPlatform(dispatch_results, q)
                   /\ OfPlatform(outbound', q) = OfPlatform(outbound, q)]_vars

\* the dispatch of an order to Meta failed, or never answered, and the
\* dispatch of the same order to TikTok was sent
C28_Witness ==
    \E r \in dispatch_results :
       /\ r.platform = "tiktok" /\ r.message = "sent"
       /\ \/ \E x \in dispatch_results :
                x.platform = "meta" /\ x.order_id = r.order_id /\ ~x.success
          \/ \E t \in inflight : t.platform = "meta" /\ t.body.order_id = r.order_id

\* the calls that went out to a platform for an order
CallsFor(p, order_id) == {c \in outbound : c.platform = p /\ c.order_id = order_id}

(* C29: one invocation of a dispatcher makes at most one call to its        *)
(* platform; when that call fails the dispatcher writes no pending tracking *)
(* event and nothing invokes the dispatcher again: only the creation of an  *)
(* order starts dispatches, and no order has more than one call to a        *)
(* platform.                                                                *)
C29_OneCallNoRetry ==
    /\ [][\A t \in inflight \ inflight' :
             /\ Cardinality(outbound' \ outbound) <= 1
             /\ (\E r \in dispatch_results' : r.platform = t.platform
                    /\ r.order_id = t.body.order_id /\ ~r.success) =>
                   /\ pending_tracking_events' = pending_tracking_events
                   /\ inflight' = inflight \ {t}]_vars
    /\ [][~(inflight' \subseteq inflight) => orders' # orders]_vars
    /\ [][\A o \in orders', p \in {"meta", "tiktok"} :
             Cardinality(CallsFor(p, o.id)') <= 1]_vars

\* the call of an order to a platform failed, the dispatcher has answered,
\* and nothing is in flight or queued for the order
C29_Witness ==
    \E r \in dispatch_results :
       /\ ~r.success
       /\ r.message \in {"platform_error", "tracking_failed"}
       /\ Cardinality(CallsFor(r.platform, r.order_id)) = 1
       /\ \A t \in inflight : t.body.order_id # r.order_id
       /\ \A row \in pending_tracking_events : row.order_id # r.order_id

----------------------------------------------------------------------------
(* Duplicates: one phone submitting carts that are equal, or differ in a    *)
(* quantity, at two-minute steps                                            *)

TwoMinutesMs == 2 * 60 * 1000

DupCalls ==
    {[BaseReq EXCEPT !.cart_items = c] : c \in {CartA1, CartA2, CartA1A2, CartA2A2}}
    \X {BaseEnv}

DupNext ==
    \/ \E call \in DupCalls : CreateOrder(call[1], call[2])
    \/ Tick(TwoMinutesMs, MaxDupTicks * TwoMinutesMs)

DupSpec == Init /\ [][DupNext]_vars

\* the cart lines as <<product, quantity>>, of a request and of a stored order
CartContents(cart_items) ==
    [i \in 1..Len(cart_items) |-> <<cart_items[i].product_id, cart_items[i].quantity>>]

StoredContents(o) ==
    [i \in 1..Cardinality(ItemsOf(o.id)) |->
        LET it == CHOOSE x \in ItemsOf(o.id) : x.line = i
        IN  <<it.product_id, it.quantity>>]

\* the order created last for the phone, as a set of at most one row
LastOrderOf(phone) ==
    {o \in orders : /\ o.phone = phone
                    /\ \A x \in orders : x.phone = phone => x.id <= o.id}

\* same products line by line, and another quantity on some line
DiffersInQuantity(c, d) ==
    /\ Len(c) = Len(d)
    /\ \A i \in 1..Len(c) : c[i][1] = d[i][1]
    /\ \E i \in 1..Len(c) : c[i][2] # d[i][2]

(* C4: a request that reaches the duplicate check less than 5 minutes after *)
(* the last order of its phone was created is rejected as a duplicate (400) *)
(* and writes nothing when its cart is identical to that order's; it is not *)
(* rejected as a duplicate when its cart differs from that order's in the   *)
(* quantity of an item.                                                     *)
C4_DuplicateOfLastOrder ==
    [][\A call \in DupCalls : \A last \in LastOrderOf(call[1].phone) :
          (/\ CreateOrder(call[1], call[2])
           /\ clock - last.created_at < FiveMinutesMs
           /\ gate' \notin {"rate_ip", "rate_phone"}) =>
             /\ CartContents(call[1].cart_items) = StoredContents(last) =>
                   /\ gate' = "duplicate"
                   /\ response'.status = 400
                   /\ UNCHANGED storeVars
             /\ DiffersInQuantity(CartContents(call[1].cart_items), StoredContents(last)) =>
                   gate' # "duplicate"]_vars

(* C4, first half alone: the identical cart is rejected as a duplicate.     *)
C4_IdenticalCartRejected ==
    [][\A call \in DupCalls : \A last \in LastOrderOf(call[1].phone) :
          (/\ CreateOrder(call[1], call[2])
           /\ clock - last.created_at < FiveMinutesMs
           /\ gate' \notin {"rate_ip", "rate_phone"}
           /\ CartContents(call[1].cart_items) = StoredContents(last)) =>
             gate' = "duplicate"]_vars

(* C4, second half alone: another quantity is not rejected as a duplicate.  *)
C4_OtherQuantityNotRejected ==
    [][\A call \in DupCalls : \A last \in LastOrderOf(call[1].phone) :
          (/\ CreateOrder(call[1], call[2])
           /\ clock - last.created_at < FiveMinutesMs
           /\ DiffersInQuantity(CartContents(call[1].cart_items), StoredContents(last))) =>
             gate' # "duplicate"]_vars

\* how often a pair occurs in a sequence of pairs, and equality as multisets
CountOf(pairs, x) == Cardinality({i \in 1..Len(pairs) : pairs[i] = x})

SameMultiset(c, d) ==
    /\ Len(c) = Len(d)
    /\ \A i \in 1..Len(c) : CountOf(c, c[i]) = CountOf(d, c[i])

(* C21: the duplicate predicate is true exactly when the (product_id,       *)
(* quantity) pairs of the submitted cart and those of the items of the      *)
(* prior order are equal as multisets, also for carts that list a product   *)
(* on more than one line.                                                   *)
C21_DuplicateIffSameMultiset ==
    \A o \in orders : \A call \in DupCalls :
       isDuplicate(ItemsOf(o.id), call[1].cart_items)
          <=> SameMultiset(CartContents(call[1].cart_items), StoredContents(o))

\* the orders of the phone created in the last 5 minutes, and the one of them
\* created last
OrdersInLookback(phone) == RecentOrders(phone, clock - FiveMinutesMs)

MostRecentInLookback(phone) ==
    {o \in OrdersInLookback(phone) : \A x \in OrdersInLookback(phone) : x.id <= o.id}

(* C22: when several orders of the phone lie in the last 5 minutes, the     *)
(* duplicate check compares the cart with the items of the one created last *)
(* and with no other: the request is rejected as a duplicate exactly when   *)
(* the predicate holds of that order.                                       *)
C22_ComparesWithMostRecentOnly ==
    [][\A call \in DupCalls : \A last \in MostRecentInLookback(call[1].phone) :
          (/\ CreateOrder(call[1], call[2])
           /\ Cardinality(OrdersInLookback(call[1].phone)) > 1
           /\ gate' \notin {"rate_ip", "rate_phone"}) =>
             (gate' = "duplicate"
                <=> isDuplicate(ItemsOf(last.id), call[1].cart_items))]_vars

\* the item row made from line i of the cart holds the options of that line
LineKeepsItsOptions(o, cart_items, i) ==
    \E it \in ItemsOf(o.id)' :
       /\ it.line = i
       /\ it.product_id = cart_items[i].product_id
       /\ it.selected_size = cart_items[i].options.size
       /\ it.selected_color = cart_items[i].options.color

(* C31: for every cart line of an admitted order, the OrderItem row made    *)
(* from the line stores the size and the color submitted on that line, also *)
(* when the cart lists one product on several lines with other options.     *)
C31_EachLineKeepsItsOptions ==
    [][\A call \in DupCalls :
          (CreateOrder(call[1], call[2]) /\ gate' = "success") =>
             \A o \in orders' \ orders : \A i \in 1..Len(call[1].cart_items) :
                LineKeepsItsOptions(o, call[1].cart_items, i)]_vars

(* C31, for the carts that list every product once: each row holds the      *)
(* options of its line.                                                     *)
C31_OptionsKeptWhenProductsDiffer ==
    [][\A call \in DupCalls :
          (/\ CreateOrder(call[1], call[2]) /\ gate' = "success"
           /\ Len(call[1].cart_items) = 1) =>
             \A o \in orders' \ orders :
                LineKeepsItsOptions(o, call[1].cart_items, 1)]_vars

----------------------------------------------------------------------------
(* Rate limits: one IP, whose customers order three times each; the next    *)
(* request is the last customer's again, or a new customer's once the last  *)
(* one has used a whole allowance.  Time advances by 45 minutes.            *)

FortyFiveMinutesMs == 45 * 60 * 1000

DigitSeq == <<"0", "1", "2", "3", "4", "5", "6", "7", "8", "9">>

PhoneOf(k) == <<"0", "5", "5", "0", "0", "0", "0", "0", "0", DigitSeq[k + 1]>>

OrdersOfPhone(phone) == {o \in orders : o.phone = phone}

OrdersOfIp(ip) == {o \in orders : o.ip_address = ip}

LastPhone == (CHOOSE o \in orders : \A x \in orders : x.id <= o.id).phone

RatePhones ==
    IF orders = {} THEN {PhoneOf(0)}
    ELSE {LastPhone} \cup
         (IF Cardinality(OrdersOfPhone(LastPhone)) % PhoneLimit = 0
          THEN {PhoneOf(Cardinality({o.phone : o \in orders}))}
          ELSE {})

\* consecutive carts of a phone differ in their quantity
RateReq(phone) ==
    [BaseReq EXCEPT !.phone = phone,
                    !.cart_items =
                        <<Line("A", (Cardinality(OrdersOfPhone(phone)) % 3) + 1, "")>>]

RateNext ==
    \/ \E phone \in RatePhones :
          CreateOrder(RateReq(phone), BaseEnv) /\ Cardinality(orders') <= MaxRateOrders
    \/ Tick(FortyFiveMinutesMs, MaxRateTicks * FortyFiveMinutesMs)

RateSpec == Init /\ [][RateNext]_vars

(* The orders of the current window of a key, from the orders alone: going  *)
(* through the key's orders as they were created, a window opens at the     *)
(* first order, and at each order created more than an hour after the       *)
(* opening of the window before it.  WindowOf gives <<opening, count>> of   *)
(* the last window, <<-1, 0>> without orders.                               *)
RECURSIVE WindowFrom(_, _, _)
WindowFrom(rows, start, count) ==
    IF rows = {} THEN <<start, count>>
    ELSE LET o == CHOOSE x \in rows : \A y \in rows : x.id <= y.id
         IN  IF start < 0 \/ o.created_at - start > HourMs
             THEN WindowFrom(rows \ {o}, o.created_at, 1)
             ELSE WindowFrom(rows \ {o}, start, count + 1)

WindowOf(rows) == WindowFrom(rows, -1, 0)

\* the key's window is open now and holds at least `limit` orders
WindowFull(rows, limit) ==
    /\ rows # {}
    /\ clock - WindowOf(rows)[1] <= HourMs
    /\ WindowOf(rows)[2] >= limit

\* at least `limit` of the rows were created less than an hour ago
HourFull(rows, limit) ==
    Cardinality({o \in rows : clock - o.created_at < HourMs}) >= limit

(* C3, as stated: for requests handled one after another, once 10 orders    *)
(* were created from an IP within one hour, the next request from that IP   *)
(* within that hour is rejected with 429 and creates no Order row; likewise *)
(* once 3 orders were created for a phone.                                  *)
C3_LimitPerHour ==
    [][\A phone \in RatePhones :
          (/\ CreateOrder(RateReq(phone), BaseEnv)
           /\ \/ HourFull(OrdersOfIp(BaseReq.ip), IpLimit)
              \/ HourFull(OrdersOfPhone(phone), PhoneLimit)) =>
             /\ response'.status = 429
             /\ orders' = orders]_vars

(* C3, amended: the hour is the window of the key's counter, which opens at *)
(* the first order admitted while the key has no window opened within the   *)
(* last hour.  Once 10 orders were created from an IP in its open window,   *)
(* the next request from that IP while the window is open is rejected with  *)
(* 429 and creates no Order row; likewise once 3 orders were created for a  *)
(* phone in its open window.                                                *)
C3_LimitPerWindow ==
    [][\A phone \in RatePhones :
          (/\ CreateOrder(RateReq(phone), BaseEnv)
           /\ \/ WindowFull(OrdersOfIp(BaseReq.ip), IpLimit)
              \/ WindowFull(OrdersOfPhone(phone), PhoneLimit)) =>
             /\ response'.status = 429
             /\ orders' = orders]_vars

\* the IP's 11th request in its window was rejected, by the IP check
C3_Witness ==
    /\ gate = "rate_ip"
    /\ response.status = 429
    /\ WindowFull(OrdersOfIp(BaseReq.ip), IpLimit)
    /\ Cardinality(orders) = IpLimit

----------------------------------------------------------------------------
(* get-order-public: the customer's view of an order, by id and token       *)

\* the text of a uuid of the store: of an orders.id, of an orders.public_token
IdText(id) == <<"o", DigitSeq[id + 1]>>
TokenText(token) == <<"t", DigitSeq[token[2] + 1]>>

\* the selection by the id alone
OrderById(order_id, public_token) ==
    Single({o \in orders : IdText(o.id) = order_id})

\* from("orders").select(...).eq("id", order_id).eq("public_token", public_token).single()
OrderByIdAndToken(order_id, public_token) ==
    Single({o \in orders : /\ IdText(o.id) = order_id
                           /\ TokenText(o.public_token) = public_token})

\* json(body, status) of get-order-public
LookupFailure(message, status) == [success |-> FALSE, error |-> message, status |-> status]

LookupSuccess(o) ==
    [success |-> TRUE, status |-> 200,
     order   |-> [id |-> o.id, created_at |-> o.created_at, full_name |-> o.full_name,
                  phone |-> o.phone, wilaya |-> o.wilaya, address |-> o.address,
                  delivery_type |-> o.delivery_type, subtotal |-> o.subtotal,
                  shipping |-> o.shipping, total |-> o.total, status |-> o.status,
                  public_token |-> o.public_token, event_id |-> o.event_id],
     items   |-> ItemsOf(o.id)]

\* serve(async (req) => ...) of get-order-public
GetOrderPublic(q) ==
    LET order_id     == Trim(q.order_id)
        public_token == Trim(q.public_token)
        order        == OrderByIdAndToken(order_id, public_token)
    IN
    /\ lookup' =
          IF order_id = <<>> \/ public_token = <<>>
          THEN LookupFailure("missing", 400)
          ELSE IF order = {}
          THEN LookupFailure("not_found", 404)
          ELSE LookupSuccess(CHOOSE o \in order : TRUE)
    /\ UNCHANGED <<clock, catalogVars, configVars, storeVars, trackVars, response, gate,
                   phone_input, running, started, log>>

LookupCalls ==
    {BaseReq, [BaseReq EXCEPT !.phone = PhoneB, !.cart_items = CartAB],
     [BaseReq EXCEPT !.cart_items = CartA2],
     [BaseReq EXCEPT !.delivery_type = "home", !.address = Street, !.cart_items = CartA1A2]}
    \X {BaseEnv}

\* texts of ids and tokens, of orders that exist or not, bare or padded, or blank
LookupTexts(t1, t2, t3) ==
    {t1, t2, t3, <<" ">> \o t1 \o <<" ">>, t2 \o <<"\n">>, <<>>, <<" ">>}

LookupQueries ==
    {[order_id |-> i, public_token |-> t] :
        i \in LookupTexts(IdText(1), IdText(2), IdText(3)),
        t \in LookupTexts(TokenText(<<"token", 1>>), TokenText(<<"token", 2>>),
                          TokenText(<<"token", 3>>))}

LookupNext ==
    \/ \E call \in LookupCalls :
          CreateOrder(call[1], call[2]) /\ Cardinality(orders') <= MaxLookupOrders
    \/ \E q \in LookupQueries : GetOrderPublic(q)

LookupSpec == Init /\ [][LookupNext]_vars

\* the orders that carry both texts
Matching(order_id, public_token) ==
    {o \in orders : IdText(o.id) = order_id /\ TokenText(o.public_token) = public_token}

(* C11, as stated: get-order-public returns an order and its items only     *)
(* when an Order has the supplied order_id as its id and the supplied       *)
(* public_token as its token; every supplied non-empty pair that does not   *)
(* match one order on both fields gets 404 and no order data.               *)
C11_ExactPairOr404 ==
    [][\A q \in LookupQueries :
          GetOrderPublic(q) =>
             /\ lookup'.success =>
                   \E o \in Matching(q.order_id, q.public_token) :
                      lookup' = LookupSuccess(o)
             /\ (/\ q.order_id # <<>>
                 /\ q.public_token # <<>>
                 /\ Matching(q.order_id, q.public_token) = {}) =>
                   lookup' = LookupFailure("not_found", 404)]_vars

(* C11, amended: the supplied values are compared after removal of their    *)
(* surrounding white space.  An order and its items are returned only when  *)
(* an Order has the trimmed order_id as its id and the trimmed public_token *)
(* as its token; every pair whose trimmed values are both non-empty and do  *)
(* not match one order on both fields gets 404 and no order data.           *)
C11_TrimmedPairOr404 ==
    [][\A q \in LookupQueries :
          GetOrderPublic(q) =>
             /\ lookup'.success =>
                   \E o \in Matching(Trim(q.order_id), Trim(q.public_token)) :
                      lookup' = LookupSuccess(o)
             /\ (/\ Trim(q.order_id) # <<>>
                 /\ Trim(q.public_token) # <<>>
                 /\ Matching(Trim(q.order_id), Trim(q.public_token)) = {}) =>
                   lookup' = LookupFailure("not_found", 404)]_vars

\* a lookup was refused with 404 while the store holds two orders
C11_Witness ==
    /\ lookup = LookupFailure("not_found", 404)
    /\ Cardinality(orders) = 2

----------------------------------------------------------------------------
(* The dispatchers called directly (by the storefront for its other events, *)
(* by the admin with force_send), besides the calls of create-order         *)

DirectBody(event_name, phone, order_id, force_send) ==
    [event_name  |-> event_name,
     event_id    |-> "evt_9",
     phone       |-> phone,
     value       |-> 100,
     currency    |-> "DZD",
     order_id    |-> order_id,
     content_ids |-> <<"A">>,
     force_send  |-> force_send]

DirectPhones == {PhoneA, PhoneB, <<>>}

\* a ViewContent or a Purchase without order, or a Purchase of an order of
\* the store
DirectBodies ==
    {DirectBody("ViewContent", p, 0, FALSE) : p \in DirectPhones}
    \cup {DirectBody("Purchase", PhoneA, 0, FALSE)}
    \cup {DirectBody("Purchase", p, o.id, f) : p \in DirectPhones, o \in orders, f \in BOOLEAN}

\* an HTTP call of a dispatcher reaches the function
DirectCall(platform, body) ==
    /\ inflight = {}
    /\ Cardinality(dispatch_results) < MaxDirectResults
    /\ Cardinality(outbound) < MaxDirectSends
    /\ inflight' = {[platform |-> platform, body |-> body]}
    /\ UNCHANGED <<clock, catalogVars, configVars, storeVars, pending_tracking_events,
                   outbound, dispatch_results, response, gate, sideVars>>

DispatchNext ==
    \/ CreateOrder(BaseReq, BaseEnv) /\ Cardinality(orders') <= 1
    \/ \E platform \in {"meta", "tiktok"}, body \in DirectBodies : DirectCall(platform, body)
    \/ \E task \in inflight, env \in DispatchEnvs : MetaServerEvents(task, env)
    \/ \E task \in inflight, env \in DispatchEnvs : TikTokServerEvents(task, env)

DispatchSpec == TrackInit /\ [][DispatchNext]_vars

\* a forced resend of the Purchase of an order while the setting is 'delivered'
ForcedResend(task) ==
    /\ task.body.event_name = "Purchase"
    /\ task.body.order_id # 0
    /\ task.body.force_send
    /\ PurchaseEventTrigger = "delivered"

\* the dispatcher sent the event of the task and queued nothing
SentNotQueued(task) ==
    /\ \E sent \in outbound' :
          /\ sent.platform = task.platform
          /\ sent.order_id = task.body.order_id
    /\ \E r \in dispatch_results' \ {x \in dispatch_results : x.message = "queued_for_delivered"} :
          /\ r.platform = task.platform
          /\ r.message \in {"sent", "platform_error", "tracking_failed"}
    /\ pending_tracking_events' = pending_tracking_events

(* C27: for each platform dispatcher, with the setting 'delivered' a forced *)
(* resend of an order's Purchase is sent to the platform and no pending     *)
(* tracking event is written.                                               *)
C27_ForcedResendIsSent ==
    [][\A task \in inflight, env \in DispatchEnvs :
          /\ ForcedResend(task)
          /\ \/ MetaConfigured /\ MetaServerEvents(task, env)
             \/ TikTokConfigured /\ TikTokServerEvents(task, env)
          => SentNotQueued(task)]_vars

(* C27, the dispatcher of TikTok alone: it reads force_send and sends.      *)
C27_TikTokForcedResendIsSent ==
    [][\A task \in inflight, env \in DispatchEnvs :
          /\ ForcedResend(task)
          /\ TikTokConfigured /\ TikTokServerEvents(task, env)
          => SentNotQueued(task)]_vars

(* C35: an event that is not a Purchase, or a Purchase that carries no      *)
(* order_id, is sent to the platform at once by a configured dispatcher,    *)
(* whatever the purchase_event setting is, and never produces a pending     *)
(* tracking event.                                                          *)
C35_UntiedEventsSentAtOnce ==
    /\ [][\A task \in inflight, env \in DispatchEnvs :
             /\ task.body.event_name # "Purchase" \/ task.body.order_id = 0
             /\ \/ MetaConfigured /\ MetaServerEvents(task, env)
                \/ TikTokConfigured /\ TikTokServerEvents(task, env)
             => /\ \E sent \in outbound' \ outbound :
                      /\ sent.platform = task.platform
                      /\ sent.order_id = task.body.order_id
                /\ pending_tracking_events' = pending_tracking_events]_vars
    /\ [][\A row \in pending_tracking_events' :
             row.event_name = "Purchase" /\ row.order_id # 0]_vars

\* under 'delivered', a Purchase without order_id went out to Meta and a
\* ViewContent to TikTok, and nothing is queued
C35_Witness ==
    /\ settings = "delivered"
    /\ pending_tracking_events = {}
    /\ \E m \in outbound :
          m.platform = "meta" /\ m.order_id = 0 /\ m.payload.event_name = "Purchase"
    /\ \E t \in outbound :
          t.platform = "tiktok" /\ t.order_id = 0 /\ t.payload.event = "ViewContent"

\* the digest field of a payload, and the payload with that field blanked
DigestOf(platform, payload) == IF platform = "meta" THEN payload.ph ELSE payload.phone

Undigested(platform, payload) ==
    IF platform = "meta" THEN [payload EXCEPT !.ph = <<>>]
    ELSE [payload EXCEPT !.phone = <<>>]

PayloadOf(platform, body) ==
    IF platform = "meta" THEN MetaPayload(body) ELSE TikTokPayload(body)

\* the texts of a phone that a payload must not carry
PhoneTexts(phone) ==
    {phone, Trim(phone), normalizeDzPhone(phone)}
    \cup (IF phone # <<>> THEN {MetaNormalizedPhone(phone)} ELSE {})

(* C12: the payload sent to a platform carries the phone only as its        *)
(* digest: it equals, outside the digest field, the payload of the same     *)
(* dispatch without phone; the digest is the same for the same phone and is *)
(* none of the texts of the phone.                                          *)
C12_PhoneOnlyAsDigest ==
    [][\A task \in inflight, env \in DispatchEnvs :
          (MetaServerEvents(task, env) \/ TikTokServerEvents(task, env)) =>
             \A c \in outbound' \ outbound :
                LET p == task.platform
                    b == task.body
                IN  /\ Undigested(p, c.payload)
                          = Undigested(p, PayloadOf(p, [b EXCEPT !.phone = <<>>]))
                    /\ DigestOf(p, c.payload) # <<>> =>
                          DigestOf(p, c.payload) \notin PhoneTexts(b.phone)
                    /\ \A b2 \in DirectBodies :
                          b2.phone = b.phone =>
                             DigestOf(p, PayloadOf(p, b2)) = DigestOf(p, c.payload)]_vars

\* two calls went out to one platform with two digests and the same rest
C12_Witness ==
    \E c1, c2 \in outbound :
       /\ c1.platform = c2.platform
       /\ DigestOf(c1.platform, c1.payload) # <<>>
       /\ DigestOf(c2.platform, c2.payload) # <<>>
       /\ DigestOf(c1.platform, c1.payload) # DigestOf(c2.platform, c2.payload)
       /\ Undigested(c1.platform, c1.payload) = Undigested(c2.platform, c2.payload)

(* C17: a dispatcher whose platform has no credentials makes no outbound    *)
(* call, writes nothing to the store and answers with a success, for every  *)
(* event and every value of the purchase_event setting.                     *)
C17_UnconfiguredSkipsWithSuccess ==
    [][\A task \in inflight, env \in DispatchEnvs :
          (\/ MetaServerEvents(task, env) /\ ~meta_env
           \/ TikTokServerEvents(task, env) /\ ~tiktok_env) =>
             /\ UNCHANGED <<outbound, pending_tracking_events, storeVars>>
             /\ \A r \in dispatch_results' \ dispatch_results :
                   r.success /\ r.status = 200
             /\ \E r \in dispatch_results' :
                   /\ r.platform = task.platform
                   /\ r.order_id = task.body.order_id
                   /\ r.message = "skipped_not_configured"]_vars

\* under 'delivered', the Purchase of an order was skipped by Meta for want of credentials
C17_Witness ==
    /\ ~meta_env
    /\ settings = "delivered"
    /\ \E r \in dispatch_results :
          /\ r.platform = "meta"
          /\ r.order_id # 0
          /\ r.message = "skipped_not_configured"
    /\ pending_tracking_events = {}

----------------------------------------------------------------------------
(* create-order stage by stage: every await of the handler is a step of its *)
(* own, so that the executions of several requests can overlap              *)

\* the stages with the cart deleted before the prices are resolved
StageOrderCartFirst ==
    <<"validate", "verify", "rate_read_ip", "rate_read_phone", "duplicate",
      "cart_delete", "pricing", "insert_order", "insert_items", "insert_history",
      "rate_write_ip", "rate_write_phone", "dispatch">>

\* the stages of the handler in the order of its statements
StageOrder ==
    <<"validate", "verify", "rate_read_ip", "rate_read_phone", "duplicate",
      "pricing", "insert_order", "insert_items", "insert_history",
      "rate_write_ip", "rate_write_phone", "cart_delete", "dispatch">>

\* the delete of the cart tried again and again
StageAfterRetrying(pc) ==
    LET i == CHOOSE k \in 1..Len(StageOrder) : StageOrder[k] = pc
    IN  IF pc = "cart_delete" THEN pc
        ELSE IF i < Len(StageOrder) THEN StageOrder[i + 1] ELSE "done"

StageAfter(pc) ==
    LET i == CHOOSE k \in 1..Len(StageOrder) : StageOrder[k] = pc
    IN  IF i < Len(StageOrder) THEN StageOrder[i + 1] ELSE "done"

\* the execution goes on to its next stage, with its local variables as in f
Advance(e, f) ==
    /\ running' = (running \ {e}) \cup {[f EXCEPT !.pc = StageAfter(e.pc)]}
    /\ UNCHANGED <<response, gate, log>>

\* the execution returns a Response
Finish(e, g, r) ==
    /\ running' = running \ {e}
    /\ response' = r
    /\ gate' = g
    /\ log' = LoggedAt(g)

\* a request reaches the function while fewer than `slots` are being handled
StartOrder(req, env, slots) ==
    /\ Cardinality(running) < slots
    /\ started' = started + 1
    /\ running' = running \cup
          {[rid            |-> started + 1,
            req            |-> req,
            env            |-> env,
            pc             |-> StageOrder[1],
            now            |-> 0,
            ipRateLimit    |-> {},
            phoneRateLimit |-> {},
            orderItems     |-> <<>>,
            subtotal       |-> 0,
            shipping       |-> 0,
            total          |-> 0,
            order          |-> {}]}
    /\ UNCHANGED <<clock, catalogVars, configVars, storeVars, trackVars, response, gate,
                   phone_input, lookup, log>>

\* the validation with the address rule tested before the others
ValidateAddressFirst(e) ==
    LET req == e.req
    IN  /\ UNCHANGED <<storeVars, trackVars>>
        /\ IF Trim(req.address) = <<>>
           THEN Finish(e, "address", errorResponse("address_required", 400))
           ELSE IF Trim(req.full_name) = <<>>
           THEN Finish(e, "name", errorResponse("name_required", 400))
           ELSE IF ~RegexTest(phoneRegex, req.phone)
           THEN Finish(e, "phone", errorResponse("phone_invalid", 400))
           ELSE IF req.wilaya \notin wilayas
           THEN Finish(e, "wilaya", errorResponse("wilaya_unknown", 400))
           ELSE IF req.delivery_type \notin {"office", "home"}
           THEN Finish(e, "delivery_type", errorResponse("delivery_type_invalid", 400))
           ELSE IF Len(req.cart_items) = 0
           THEN Finish(e, "cart", errorResponse("cart_empty", 400))
           ELSE Advance(e, e)

\* lines 53-87
Validate(e) ==
    LET req == e.req
    IN  /\ UNCHANGED <<storeVars, trackVars>>
        /\ IF Trim(req.full_name) = <<>>
           THEN Finish(e, "name", errorResponse("name_required", 400))
           ELSE IF ~RegexTest(phoneRegex, req.phone)
           THEN Finish(e, "phone", errorResponse("phone_invalid", 400))
           ELSE IF req.wilaya \notin wilayas
           THEN Finish(e, "wilaya", errorResponse("wilaya_unknown", 400))
           ELSE IF req.delivery_type \notin {"office", "home"}
           THEN Finish(e, "delivery_type", errorResponse("delivery_type_invalid", 400))
           ELSE IF req.delivery_type = "home" /\ Trim(req.address) = <<>>
           THEN Finish(e, "address", errorResponse("address_required", 400))
           ELSE IF Len(req.cart_items) = 0
           THEN Finish(e, "cart", errorResponse("cart_empty", 400))
           ELSE Advance(e, e)

\* lines 93-106
Verify(e) ==
    /\ UNCHANGED <<storeVars, trackVars>>
    /\ IF e.env.turnstile = "throws"
       THEN Finish(e, "turnstile_throws", errorResponse("unexpected", 500))
       ELSE IF e.env.turnstile # "success"
       THEN Finish(e, "turnstile", errorResponse("verification_failed", 400))
       ELSE Advance(e, e)

\* lines 112-127
RateReadIp(e) ==
    LET now         == clock
        ipRateLimit == Single(RateLimitRows(e.req.ip, "ip", now - HourMs))
    IN  /\ UNCHANGED <<storeVars, trackVars>>
        /\ IF OverIpLimit(ipRateLimit)
           THEN Finish(e, "rate_ip", errorResponse("rate_limit", 429))
           ELSE Advance(e, [e EXCEPT !.now = now, !.ipRateLimit = ipRateLimit])

\* lines 130-141
RateReadPhone(e) ==
    LET phoneRateLimit == Single(RateLimitRows(e.req.phone, "phone", e.now - HourMs))
    IN  /\ UNCHANGED <<storeVars, trackVars>>
        /\ IF OverPhoneLimit(phoneRateLimit)
           THEN Finish(e, "rate_phone", errorResponse("rate_limit_phone", 429))
           ELSE Advance(e, [e EXCEPT !.phoneRateLimit = phoneRateLimit])

\* lines 148-170
DuplicateCheck(e) ==
    LET recentOrders == RecentOrders(e.req.phone, clock - FiveMinutesMs)
    IN  /\ UNCHANGED <<storeVars, trackVars>>
        /\ IF recentOrders = {}
           THEN Advance(e, e)
           ELSE \E first \in recentOrders :
                   IF isDuplicate(ItemsOf(first.id), e.req.cart_items)
                   THEN Finish(e, "duplicate", errorResponse("duplicate_order", 400))
                   ELSE Advance(e, e)

\* lines 176-223
Pricing(e) ==
    LET cart_items == e.req.cart_items
        found      == FetchProducts(ProductIds(cart_items))
        rate       == ShippingRate(e.req.wilaya, e.req.delivery_type)
    IN  /\ UNCHANGED <<storeVars, trackVars>>
        /\ IF e.env.productsError \/ found = {}
           THEN Finish(e, "products", errorResponse("products_load", 500))
           ELSE IF InactiveProducts(found) # {}
           THEN Finish(e, "inactive", errorResponse("products_unavailable", 400))
           ELSE IF \E i \in 1..Len(cart_items) : cart_items[i].product_id \notin found
           THEN Finish(e, "product_not_found", errorResponse("unexpected", 500))
           ELSE IF e.env.shippingError \/ rate = {} \/ (\E r \in rate : ~r.is_enabled)
           THEN Finish(e, "shipping", errorResponse("shipping_unavailable", 400))
           ELSE LET orderItems == OrderItems(cart_items)
                    subtotal   == Subtotal(orderItems)
                    shipping   == (CHOOSE r \in rate : TRUE).price
                IN  Advance(e, [e EXCEPT !.orderItems = orderItems,
                                         !.subtotal = subtotal,
                                         !.shipping = shipping,
                                         !.total = Total(subtotal, shipping)])

\* lines 229-253
InsertOrder(e) ==
    LET id    == NewId(orders)
        order == [id            |-> id,
                  public_token  |-> <<"token", id>>,
                  full_name     |-> Trim(e.req.full_name),
                  phone         |-> e.req.phone,
                  wilaya        |-> e.req.wilaya,
                  address       |-> Trim(e.req.address),
                  delivery_type |-> e.req.delivery_type,
                  subtotal      |-> e.subtotal,
                  shipping      |-> e.shipping,
                  total         |-> e.total,
                  status        |-> "new",
                  ip_address    |-> e.req.ip,
                  event_id      |-> e.req.event_id,
                  created_at    |-> clock]
    IN  /\ UNCHANGED <<order_items, order_status_history, rate_limits, carts, trackVars>>
        /\ IF e.env.orderError
           THEN /\ Finish(e, "order_insert", errorResponse("order_create", 500))
                /\ UNCHANGED orders
           ELSE /\ orders' = orders \cup {order}
                /\ Advance(e, [e EXCEPT !.order = {order}])

\* lines 255-279
InsertItems(e) ==
    /\ UNCHANGED <<orders, order_status_history, rate_limits, carts, trackVars>>
    /\ IF e.env.itemsError
       THEN /\ running' = (running \ {e}) \cup {[e EXCEPT !.pc = "rollback"]}
            /\ log' = {LogEntry("Order items error:", "itemsError")}
            /\ UNCHANGED <<order_items, response, gate>>
       ELSE /\ order_items' = order_items \cup
                   UNION {OrderItemRows(o.id, e.orderItems, e.req.cart_items) :
                             o \in e.order}
            /\ Advance(e, e)

\* lines 280-283
Rollback(e) ==
    /\ orders' = DeleteOrder(orders, (CHOOSE o \in e.order : TRUE).id,
                             e.env.rollbackError)
    /\ Finish(e, IF e.env.rollbackError THEN "items_insert_delete_failed"
                 ELSE "items_insert",
              errorResponse("order_create", 500))
    /\ UNCHANGED <<order_items, order_status_history, rate_limits, carts, trackVars>>

\* lines 286-289
InsertHistory(e) ==
    /\ order_status_history' =
          InsertStatusHistory(order_status_history, (CHOOSE o \in e.order : TRUE).id,
                              e.env.historyError)
    /\ Advance(e, e)
    /\ UNCHANGED <<orders, order_items, rate_limits, carts, trackVars>>

\* lines 296-311
RateWriteIp(e) ==
    /\ rate_limits' = RecordRateLimit(rate_limits, e.ipRateLimit, e.req.ip, "ip", e.now)
    /\ Advance(e, e)
    /\ UNCHANGED <<orders, order_items, order_status_history, carts, trackVars>>

\* lines 314-329
RateWritePhone(e) ==
    /\ rate_limits' =
          RecordRateLimit(rate_limits, e.phoneRateLimit, e.req.phone, "phone", e.now)
    /\ Advance(e, e)
    /\ UNCHANGED <<orders, order_items, order_status_history, carts, trackVars>>

\* lines 335-337
CartDelete(e) ==
    /\ carts' = IF e.req.cart_id # "" THEN carts \ {e.req.cart_id} ELSE carts
    /\ Advance(e, e)
    /\ UNCHANGED <<orders, order_items, order_status_history, rate_limits, trackVars>>

\* lines 344-405
StartDispatch(e) ==
    LET order == CHOOSE o \in e.order : TRUE
    IN  /\ inflight' = inflight \cup StartedDispatches(e.req, order, e.total)
        /\ Finish(e, "success", successResponse(order, e.total))
        /\ UNCHANGED <<storeVars, pending_tracking_events, outbound, dispatch_results>>

\* the next await of an execution of the handler
StepOrder(e) ==
    /\ UNCHANGED <<clock, catalogVars, configVars, phone_input, lookup, started>>
    /\ CASE e.pc = "validate"         -> Validate(e)
         [] e.pc = "verify"           -> Verify(e)
         [] e.pc = "rate_read_ip"     -> RateReadIp(e)
         [] e.pc = "rate_read_phone"  -> RateReadPhone(e)
         [] e.pc = "duplicate"        -> DuplicateCheck(e)
         [] e.pc = "pricing"          -> Pricing(e)
         [] e.pc = "insert_order"     -> InsertOrder(e)
         [] e.pc = "insert_items"     -> InsertItems(e)
         [] e.pc = "rollback"         -> Rollback(e)
         [] e.pc = "insert_history"   -> InsertHistory(e)
         [] e.pc = "rate_write_ip"    -> RateWriteIp(e)
         [] e.pc = "rate_write_phone" -> RateWritePhone(e)
         [] e.pc = "cart_delete"      -> CartDelete(e)
         [] e.pc = "dispatch"         -> StartDispatch(e)

----------------------------------------------------------------------------
(* Stages: requests handled one at a time, stage by stage, sound ones and   *)
(* ones rejected at each gate                                               *)

StageCalls ==
    ({[BaseReq EXCEPT !.cart_items = CartA2, !.cart_id = "k1"]} \X Envs)
    \cup ({[BaseReq EXCEPT !.full_name = Blank],
           [BaseReq EXCEPT !.cart_items = CartAZ],
           [BaseReq EXCEPT !.wilaya = "31"]} \X {BaseEnv})

StageNext ==
    \/ \E call \in StageCalls :
          started < MaxStageRequests /\ StartOrder(call[1], call[2], 1)
    \/ \E e \in running : StepOrder(e)

StageSpec == Init /\ [][StageNext]_vars

\* the order of the stages as stated, and the place of a stage in it (the
\* compensating delete belongs to the insert of the items)
StatedStages ==
    <<"validate", "verify", "rate_read_ip", "rate_read_phone", "duplicate",
      "pricing", "insert_order", "insert_items", "insert_history",
      "rate_write_ip", "rate_write_phone", "cart_delete", "dispatch">>

StatedPosition(pc) ==
    CHOOSE k \in 1..Len(StatedStages) :
       StatedStages[k] = (IF pc = "rollback" THEN "insert_items" ELSE pc)

(* C14: the stages of an execution run in the order: field validation, bot  *)
(* verification, rate-limit read (IP, then phone), duplicate check, pricing *)
(* and shipping, persistence (order, items, status row), rate-limit write   *)
(* (IP, then phone), cart deletion, start of the tracking dispatch; a stage *)
(* runs only after all the earlier ones passed, and nothing is written to   *)
(* the store before pricing has passed.                                     *)
C14_StagesInOrder ==
    [][/\ \A f \in running' :
             (\A e \in running : e.rid # f.rid) => f.pc = StatedStages[1]
       /\ \A e \in running : \A f \in running' :
             e.rid = f.rid /\ e.pc # f.pc =>
                \/ f.pc = "rollback" /\ e.pc = "insert_items"
                \/ /\ e.pc # "rollback"
                   /\ StatedPosition(e.pc) < Len(StatedStages)
                   /\ f.pc = StatedStages[StatedPosition(e.pc) + 1]
       /\ \A e \in running :
             StepOrder(e) /\ (storeVars' # storeVars \/ inflight' # inflight) =>
                StatedPosition(e.pc) > StatedPosition("pricing")]_vars

\* an accepted request is about to start its dispatch: its order, items,
\* status row and counters are written and its cart is deleted
C14_Witness ==
    \E e \in running :
       /\ e.pc = "dispatch"
       /\ e.order \subseteq orders
       /\ \A o \in e.order : ItemsOf(o.id) # {} /\ [order_id |-> o.id, status |-> "new"] \in order_status_history
       /\ Cardinality(rate_limits) = 2
       /\ e.req.cart_id = "k1" /\ "k1" \notin carts

----------------------------------------------------------------------------
(* Overlap: requests of one IP and one phone, each with a cart of its own,  *)
(* handled up to MaxInFlight at a time                                      *)

RaceReq(k) == [BaseReq EXCEPT !.cart_items = <<Line("A", k, "")>>]

RaceNext ==
    \/ /\ started < MaxRaceRequests
       /\ StartOrder(RaceReq(started + 1), BaseEnv, MaxInFlight)
    \/ \E e \in running : StepOrder(e)

RaceSpec == Init /\ [][RaceNext]_vars

\* the counters of a key whose window_start lies in the last hour
ActiveCounters(identifier, type) == RateLimitRows(identifier, type, clock - HourMs)

\* the keys of the requests
RaceKeys == {<<BaseReq.ip, "ip">>, <<BaseReq.phone, "phone">>}

\* the orders of a key created at or after `since`
OrdersOfKeySince(key, since) ==
    {o \in orders : /\ o.created_at >= since
                    /\ IF key[2] = "ip" THEN o.ip_address = key[1]
                       ELSE o.phone = key[1]}

(* C18: with at most MaxInFlight requests of an IP (of a phone) in flight   *)
(* at a time, the orders persisted for the IP within one rate-limit hour    *)
(* are at most 10 + MaxInFlight - 1, and those of the phone at most         *)
(* 3 + MaxInFlight - 1.                                                     *)
C18_OrdersBoundedUnderOverlap ==
    /\ Cardinality(OrdersOfKeySince(<<BaseReq.ip, "ip">>, clock - HourMs))
          <= IpLimit + MaxInFlight - 1
    /\ Cardinality(OrdersOfKeySince(<<BaseReq.phone, "phone">>, clock - HourMs))
          <= PhoneLimit + MaxInFlight - 1

(* C19: in every reachable state, also after overlapping requests, a key    *)
(* (identifier, type, action) has at most one rate-limit row whose          *)
(* window_start lies in the last hour.                                      *)
C19_OneActiveCounterPerKey ==
    \A key \in RaceKeys : Cardinality(ActiveCounters(key[1], key[2])) <= 1

(* C20: whenever no request is in flight, the count of the active counter   *)
(* of a key is the number of orders accepted for that key since the         *)
(* counter's window_start, also after overlapping requests.                 *)
C20_CountIsOrdersOfWindow ==
    running = {} =>
       \A key \in RaceKeys : \A r \in ActiveCounters(key[1], key[2]) :
          r.count = Cardinality(OrdersOfKeySince(key, r.window_start))

----------------------------------------------------------------------------
(* Fields: requests that break any of the validation rules, alone or        *)
(* several at once                                                          *)

FieldReqs ==
    {[BaseReq EXCEPT !.full_name = n, !.phone = ph, !.wilaya = w,
                     !.delivery_type = d, !.address = a, !.cart_items = c] :
        n \in {NameAli, Blank}, ph \in {PhoneA, PhoneBad}, w \in {"16", "99"},
        d \in {"office", "home", "pickup"}, a \in {<<>>, Street}, c \in {CartA1, <<>>}}

FieldNext ==
    \/ \E req \in FieldReqs :
          started < MaxFieldRequests /\ StartOrder(req, BaseEnv, 1)
    \/ \E e \in running : StepOrder(e)

FieldSpec == Init /\ [][FieldNext]_vars

\* the rules in the stated order, each TRUE when the request breaks it, with
\* the gate and the error of each
BrokenRules(req) ==
    <<Trim(req.full_name) = <<>>,
      ~ValidPhoneShape(req.phone),
      req.wilaya \notin wilayas,
      req.delivery_type \notin {"office", "home"},
      req.delivery_type = "home" /\ Trim(req.address) = <<>>,
      Len(req.cart_items) = 0>>

RuleGates == <<"name", "phone", "wilaya", "delivery_type", "address", "cart">>

RuleErrors ==
    <<"name_required", "phone_invalid", "wilaya_unknown", "delivery_type_invalid",
      "address_required", "cart_empty">>

(* C23: validation tests the rules in the order name, phone, region code,   *)
(* delivery type, address for home delivery, non-empty cart; a request that *)
(* breaks several rules is rejected with 400 and the error of the first     *)
(* rule it breaks, a request that breaks none goes on to the verification,  *)
(* and a request for 'office' delivery is never rejected for its address.   *)
C23_FirstBrokenRuleRejects ==
    [][\A e \in running :
          e.pc = "validate" /\ StepOrder(e) =>
             LET broken == {i \in 1..6 : BrokenRules(e.req)[i]}
                 first  == CHOOSE i \in broken : \A j \in broken : i <= j
             IN  IF broken # {}
                 THEN /\ \A f \in running' : f.rid # e.rid
                      /\ gate' = RuleGates[first]
                      /\ response' = errorResponse(RuleErrors[first], 400)
                      /\ e.req.delivery_type = "office" => gate' # "address"
                 ELSE \E f \in running' : f.rid = e.rid /\ f.pc = "verify"]_vars

\* the first request was rejected by the address rule, the fifth of the order
C23_Witness ==
    /\ gate = "address"
    /\ response = errorResponse("address_required", 400)
    /\ started = 1
    /\ running = {}

----------------------------------------------------------------------------
(* Expiry of the counters *)

\* the counters of a key, and those of them opened within the last hour
KeyCounters(key) ==
    {r \in rate_limits : r.identifier_type = key[2] /\ r.identifier = key[1]}

FreshCounters(key) == {r \in KeyCounters(key) : clock - r.window_start <= HourMs}

RateGate(key) == IF key[2] = "ip" THEN "rate_ip" ELSE "rate_phone"

ExpiryNext ==
    \/ /\ started < MaxExpiryRequests
       /\ StartOrder(RaceReq(started + 1), BaseEnv, MaxInFlight)
    \/ \E e \in running : StepOrder(e)
    \/ Tick(FortyFiveMinutesMs, MaxRateTicks * FortyFiveMinutesMs)

ExpirySpec == Init /\ [][ExpiryNext]_vars

\* the orders of a key created since `since` whose items are stored
PersistedSince(key, since) ==
    {o \in OrdersOfKeySince(key, since) : ItemsOf(o.id) # {}}

(* C25: in every reachable state, under any interleaving of requests, the   *)
(* count of an active counter of a key is at most the number of Order rows  *)
(* with items persisted for that key since the counter's window_start.      *)
C25_CountAtMostPersisted ==
    \A key \in RaceKeys : \A r \in ActiveCounters(key[1], key[2]) :
       r.count <= Cardinality(PersistedSince(key, r.window_start))

(* C25, the order of the writes alone: a counter is created or incremented  *)
(* only by an execution whose order and items are stored.                   *)
C25_CounterWrittenAfterPersistence ==
    [][\A e \in running :
          e \notin running' /\ (\E key \in RaceKeys : KeyCounters(key)' # KeyCounters(key)) =>
             /\ e.order # {}
             /\ e.order \subseteq orders
             /\ \A o \in e.order : ItemsOf(o.id) # {}]_vars

\* the row as it is but for its count
ButCount(r) == [r EXCEPT !.count = 0]

(* C34: recording usage on an existing counter changes only its count: the  *)
(* window_start of a counter row is never modified after the row is         *)
(* inserted, so the window of a counter never moves forward.                *)
C34_WindowStartNeverMoves ==
    [][\A r \in rate_limits :
          \E x \in rate_limits' : x.id = r.id /\ ButCount(x) = ButCount(r)]_vars

\* a counter was counted up after time had passed since its insert, and its
\* window still starts at the time of the insert
C34_Witness ==
    \E r \in rate_limits :
       /\ r.count >= 2
       /\ r.window_start = 0
       /\ clock >= FortyFiveMinutesMs
       /\ \E o \in orders : o.created_at > r.window_start /\ o.ip_address = r.identifier

----------------------------------------------------------------------------
(* Shipping rates: requests for each destination, with a cart to delete,    *)
(* while the admin enables and disables rates.  The store holds no rate for *)
(* home delivery to wilaya 31.                                              *)

ShippingCalls ==
    {[BaseReq EXCEPT !.phone = ph, !.wilaya = w, !.delivery_type = d,
                     !.address = Street, !.cart_id = "k1"] :
        ph \in {PhoneA, PhoneB}, w \in {"16", "31"}, d \in {"office", "home"}}
    \X {BaseEnv}

ShippingNext ==
    \/ \E call \in ShippingCalls :
          CreateOrder(call[1], call[2]) /\ Cardinality(orders') <= MaxShippingOrders
    \/ \E w \in {"16", "31"}, flag \in BOOLEAN : SetShippingEnabled(w, "office", flag)

ShippingSpec == Init /\ [][ShippingNext]_vars

\* the store holds an enabled rate for the destination
RateOffered(w, d) ==
    \E r \in shipping_rates : r.wilaya_code = w /\ r.delivery_type = d /\ r.is_enabled

(* C32: when the store holds no shipping rate for the region and delivery   *)
(* type of the request, or holds it disabled, create-order fails and writes *)
(* no Order, no OrderItem and no rate-limit counter, and deletes no cart.   *)
C32_NoRateNoWrite ==
    [][\A call \in ShippingCalls :
          (/\ ~RateOffered(call[1].wilaya, call[1].delivery_type)
           /\ CreateOrder(call[1], call[2])) =>
             /\ ~response'.success
             /\ UNCHANGED <<orders, order_items, rate_limits, carts>>]_vars

\* a request to a destination whose rate the admin disabled was refused:
\* the store holds no order and no counter, and the cart of the request
C32_Witness ==
    /\ gate = "shipping"
    /\ ~response.success
    /\ orders = {}
    /\ rate_limits = {}
    /\ "k1" \in carts
    /\ \E r \in shipping_rates : r.wilaya_code = "16" /\ ~r.is_enabled

----------------------------------------------------------------------------
(* Persistence: sound requests of two customers, the insert of the status   *)
(* history succeeding or failing                                            *)

HistoryCalls ==
    {[BaseReq EXCEPT !.phone = ph, !.cart_items = c] :
        ph \in {PhoneA, PhoneB}, c \in {CartA1, CartA2, CartAB}}
    \X {BaseEnv, [BaseEnv EXCEPT !.historyError = TRUE]}

HistoryNext ==
    \E call \in HistoryCalls :
       CreateOrder(call[1], call[2]) /\ Cardinality(orders') <= MaxHistoryOrders

HistorySpec == Init /\ [][HistoryNext]_vars

\* the store holds the order of the response, with status 'new' and one item
\* for each line of the cart
OrderAndItemsStored(cart_items) ==
    \E o \in orders' :
       /\ o.id = response'.order_id
       /\ o.status = "new"
       /\ Cardinality(ItemsOf(o.id)') = Len(cart_items)
       /\ \A i \in 1..Len(cart_items) : \E it \in ItemsOf(o.id)' : it.line = i

(* C33: whenever create-order returns success for a request, the store      *)
(* holds for it an Order with status 'new', exactly one OrderItem for each  *)
(* line of the cart, and an OrderStatusHistory row with status 'new' for    *)
(* the order.                                                               *)
C33_SuccessMeansOrderItemsHistory ==
    [][\A call \in HistoryCalls :
          (CreateOrder(call[1], call[2]) /\ response'.success) =>
             /\ OrderAndItemsStored(call[1].cart_items)
             /\ \E h \in order_status_history' :
                   h.order_id = response'.order_id /\ h.status = "new"]_vars

(* C33, without the status history: a success means the order and one item  *)
(* for each line are stored.                                                *)
C33_SuccessMeansOrderAndItems ==
    [][\A call \in HistoryCalls :
          (CreateOrder(call[1], call[2]) /\ response'.success) =>
             OrderAndItemsStored(call[1].cart_items)]_vars

----------------------------------------------------------------------------
(* Quantities: carts of one line whose quantity is any integer a client can *)
(* put in the JSON body                                                     *)

QuantityCalls ==
    {[BaseReq EXCEPT !.phone = ph, !.cart_items = <<Line("A", q, "")>>] :
        ph \in {PhoneA, PhoneB}, q \in {-2, -1, 0, 1, 2}}
    \X {BaseEnv}

QuantityNext ==
    \E call \in QuantityCalls :
       CreateOrder(call[1], call[2]) /\ Cardinality(orders') <= MaxQuantityOrders

QuantitySpec == Init /\ [][QuantityNext]_vars

(* C36: every persisted OrderItem has quantity >= 1, and every persisted    *)
(* Order has subtotal >= 0 and total >= shipping, for every cart a client   *)
(* can submit.                                                              *)
C36_QuantitiesAndTotalsSound ==
    /\ \A it \in order_items : it.quantity >= 1
    /\ \A o \in orders : o.subtotal >= 0 /\ o.total >= o.shipping

(* C36, for the carts whose quantities are all at least 1: the items, the   *)
(* subtotal and the total are as stated.                                    *)
C36_SoundForPositiveQuantities ==
    \A o \in orders :
       (\A it \in ItemsOf(o.id) : it.quantity >= 1) =>
          o.subtotal >= 0 /\ o.total >= o.shipping

----------------------------------------------------------------------------
(* Termination: two requests whose executions can overlap, every store call *)
(* and every outbound call returning or failing, so that an execution that  *)
(* has a next step takes it in the end                                      *)

LiveCalls ==
    ({[BaseReq EXCEPT !.cart_items = CartA2, !.cart_id = "k1"]}
        \X {BaseEnv, [BaseEnv EXCEPT !.turnstile = "throws"],
            [BaseEnv EXCEPT !.orderError = TRUE],
            [BaseEnv EXCEPT !.itemsError = TRUE, !.rollbackError = TRUE]})
    \cup ({[BaseReq EXCEPT !.full_name = Blank], [BaseReq EXCEPT !.wilaya = "31"]}
             \X {BaseEnv})

\* the execution of request rid is being handled
InFlight(rid) == \E e \in running : e.rid = rid

\* the next await of the execution of request rid returns
StepOf(rid) == \E e \in running : e.rid = rid /\ StepOrder(e)

LiveNext ==
    \/ \E call \in LiveCalls :
          started < MaxLiveRequests /\ StartOrder(call[1], call[2], MaxLiveRequests)
    \/ \E rid \in 1..MaxLiveRequests : StepOf(rid)

LiveSpec ==
    Init /\ [][LiveNext]_vars /\ \A rid \in 1..MaxLiveRequests : WF_vars(StepOf(rid))

(* C37: every store call and outbound call returning or failing, each       *)
(* invocation of create-order returns in the end, and returns once: the     *)
(* step that ends it gives one response, success or error, and the          *)
(* invocation is not handled again afterwards; it waits for no other        *)
(* request.                                                                 *)
C37_EachInvocationReturnsOnce ==
    /\ \A rid \in 1..MaxLiveRequests : InFlight(rid) ~> ~InFlight(rid)
    /\ [][\A rid \in 1..MaxLiveRequests :
             /\ (rid <= started /\ ~InFlight(rid)) => ~InFlight(rid)'
             /\ (InFlight(rid) /\ ~InFlight(rid)') =>
                   /\ response' # NoResponse
                   /\ response'.success <=> gate' = "success"
                   /\ Cardinality(running') = Cardinality(running) - 1]_vars

\* both requests have returned, one with an order stored and the last one
\* with an error
C37_Witness ==
    /\ started = MaxLiveRequests
    /\ running = {}
    /\ orders # {}
    /\ ~response.success

----------------------------------------------------------------------------
(* The digests of the two dispatchers: orders placed with phones drawn from *)
(* strings around the pattern, and dispatched to both platforms             *)

DigestNext ==
    \/ /\ orders = {}
       /\ CreateOrder([BaseReq EXCEPT !.phone = phone_input], BaseEnv)
    \/ \E task \in inflight, env \in DispatchEnvs : MetaServerEvents(task, env)
    \/ \E task \in inflight, env \in DispatchEnvs : TikTokServerEvents(task, env)

DigestSpec == PhoneInit /\ [][DigestNext]_vars

(* C38: for every phone that passes the phone check of create-order, the    *)
(* payloads of the Meta dispatcher and of the TikTok dispatcher carry the   *)
(* same digest: SHA-256 of "213" followed by the phone without its leading  *)
(* "0".                                                                     *)
C38_SameDigestOnBothPlatforms ==
    \A call \in outbound :
       DigestOf(call.platform, call.payload) = SHA256(<<"2", "1", "3">> \o Tail(phone_input))

\* the Purchase of an order placed with a phone starting with 07 went out to
\* both platforms
C38_Witness ==
    /\ Len(phone_input) = 10
    /\ phone_input[2] = "7"
    /\ \E m, t \in outbound : m.platform = "meta" /\ t.platform = "tiktok"

----------------------------------------------------------------------------
(* Redelivery: the dispatch call that create-order made for an order        *)
(* reaches the Meta dispatcher again, with the same body                    *)

Redeliver(o) ==
    /\ inflight = {}
    /\ Cardinality(pending_tracking_events) <= MaxRedeliveries
    /\ Cardinality(outbound) <= MaxRedeliveries
    /\ inflight' = {[platform |-> "meta", body |-> TrackingData(BaseReq, o, o.total)]}
    /\ UNCHANGED <<clock, catalogVars, configVars, storeVars, pending_tracking_events,
                   outbound, dispatch_results, response, gate, sideVars>>

RedeliveryNext ==
    \/ orders = {} /\ CreateOrder(BaseReq, BaseEnv)
    \/ \E o \in orders : Redeliver(o)
    \/ \E task \in inflight, env \in DispatchEnvs : MetaServerEvents(task, env)
    \/ \E task \in inflight, env \in DispatchEnvs : TikTokServerEvents(task, env)

RedeliverySpec == TrackInit /\ [][RedeliveryNext]_vars

\* the pending rows of the Purchase of an order
PendingOf(o) ==
    {row \in pending_tracking_events :
        row.order_id = o.id /\ row.event_id = o.event_id /\ row.event_name = "Purchase"}

(* C39: with purchase_event = 'delivered', dispatching the same Purchase    *)
(* (same order_id and event_id) to the Meta dispatcher more than once       *)
(* leaves one pending tracking event for the order and no more.             *)
C39_QueueingIdempotent ==
    PurchaseEventTrigger = "delivered" =>
       \A o \in orders : Cardinality(PendingOf(o)) <= 1

(* C39, what the dispatcher does: every row it holds for an order under     *)
(* 'delivered' is a row of that Purchase, one for each dispatch whose       *)
(* insert succeeded.                                                        *)
C39_OneRowPerDispatch ==
    [][\A task \in inflight, env \in DispatchEnvs :
          (/\ PurchaseEventTrigger = "delivered" /\ MetaConfigured
           /\ env.pendingInsert = "ok"
           /\ MetaServerEvents(task, env)) =>
             Cardinality(pending_tracking_events') =
                Cardinality(pending_tracking_events) + 1]_vars

====
